---- MODULE Spec2Model ----
(***************************************************************************)
(* The #[api] attribute macro of crates/api-client-server-macros: parsing   *)
(* of the annotated impl block, generation of the axum handlers, the router *)
(* and the typed client, and the request path client -> router -> handler   *)
(* -> service method -> response of the generated code.                     *)
(***************************************************************************)
EXTENDS Integers, Sequences, FiniteSets, TLC

VARIABLES
    items,          \* input.items of the impl block given to #[api]
    pc,             \* position inside api(): parse, handlers, router, client, emit, emitted, failed
    idx,            \* loop index of `for item in &input.items`
    handlers,       \* Vec<ParsedHandler>
    cleaned_items,  \* Vec<ImplItem>
    axum_handlers,  \* Vec<TokenStream2> of generate_axum_handler
    router_impl,    \* route_calls of generate_router
    client,         \* client_methods of generate_client
    expanded,       \* the macro's output: <<>> (nothing emitted) or <<artifacts>>
    diag,           \* the panic that aborted the expansion, <<>> when none
    rt,             \* position of the generated code at run time
    call,           \* the client call in progress
    request,        \* the request on the wire
    invocation,     \* the service method invocation made by the handler
    result,         \* the three-variant result the service method returned
    response,       \* the response produced by the server
    sent,           \* the requests the client call has issued on the transport
    transport,      \* what send() and the reading of the response body gave the client
    outcome,        \* the Result the client method returned to its caller
    calls,          \* the concurrent calls on one shared client instance
    net,            \* per connection: the request or the response in flight
    cells,          \* where each call keeps the response it received
    db,             \* the database of the photo frame server: its tables
    last,           \* the last completed request of the server and its response
    reqs,           \* the requests in flight in the server, each at its next statement
    served,         \* the answers of get_next_photo, in the order of their return
    view            \* the viewer: its trigger signal, its fetch and its timers

genVars == <<items, pc, idx, handlers, cleaned_items, axum_handlers, router_impl, client,
             expanded, diag>>
rtVars == <<rt, call, request, invocation, result, response, sent, transport, outcome>>
vars == <<items, pc, idx, handlers, cleaned_items, axum_handlers, router_impl, client,
          expanded, diag, rt, call, request, invocation, result, response, sent, transport,
          outcome, calls, net, cells, db, last, reqs, served, view>>
concVars == <<calls, net, cells>>
appVars == <<db, last, reqs, served, view>>
macroVars == <<genVars, rtVars, concVars>>

----------------------------------------------------------------------------
(* Bounds of the model *)

MaxParams == 3
MaxPlaceholders == 2
MaxMethods == 2
MaxDeclParams == 2
MaxVal == 2
MaxCalls == 3
MaxRoutes == 2
MaxPhotos == 2
MaxAlbums == 1

----------------------------------------------------------------------------
(* Sequence helpers *)

RECURSIVE SortedSeq(_)
\* the elements of a finite set of naturals, in increasing order
SortedSeq(S) ==
    IF S = {} THEN <<>>
    ELSE LET m == CHOOSE x \in S : \A y \in S : x <= y
         IN  <<m>> \o SortedSeq(S \ {m})

\* the indices of s, in order, whose element satisfies Test
SelectIdx(s, Test(_)) == SortedSeq({i \in 1..Len(s) : Test(s[i])})

\* Iterator::filter(..).collect()
Filter(s, Test(_)) == LET ix == SelectIdx(s, Test) IN [k \in 1..Len(ix) |-> s[ix[k]]]

Range(s) == {s[i] : i \in 1..Len(s)}

SeqsUpTo(S, n) == UNION {[1..k -> S] : k \in 0..n}

InjSeqsUpTo(S, n) == {s \in SeqsUpTo(S, n) : \A i, j \in 1..Len(s) : i # j => s[i] # s[j]}

\* position of the first element of s satisfying Test, 0 when there is none
FirstIdx(s, Test(_)) == LET ix == SelectIdx(s, Test) IN IF ix = <<>> THEN 0 ELSE ix[1]

----------------------------------------------------------------------------
(* Characters and case folding (str::to_uppercase / str::to_lowercase) *)

LowerChars == <<"a", "c", "d", "e", "g", "h", "l", "o", "p", "r", "s", "t", "u">>
UpperChars == <<"A", "C", "D", "E", "G", "H", "L", "O", "P", "R", "S", "T", "U">>

ToUpperChar(c) ==
    IF \E i \in 1..Len(LowerChars) : LowerChars[i] = c
    THEN UpperChars[CHOOSE i \in 1..Len(LowerChars) : LowerChars[i] = c]
    ELSE c

ToLowerChar(c) ==
    IF \E i \in 1..Len(UpperChars) : UpperChars[i] = c
    THEN LowerChars[CHOOSE i \in 1..Len(UpperChars) : UpperChars[i] = c]
    ELSE c

to_uppercase(s) == [i \in 1..Len(s) |-> ToUpperChar(s[i])]

to_lowercase(s) == [i \in 1..Len(s) |-> ToLowerChar(s[i])]

GET == <<"G", "E", "T">>
POST == <<"P", "O", "S", "T">>
PUT == <<"P", "U", "T">>
DELETE == <<"D", "E", "L", "E", "T", "E">>
PATCH == <<"P", "A", "T", "C", "H">>
TRACE == <<"T", "R", "A", "C", "E">>

----------------------------------------------------------------------------
(* The syntax tree handed to the macro (syn::ItemImpl, ImplItemFn, FnArg) *)

\* Option<T> is a sequence of length 0 (None) or 1 (Some)
None == <<>>
Some(x) == <<x>>

\* a parameter attribute #[name]
IsHelperAttr(a) == a \in {"body", "path", "query"}

\* FnArg::Receiver (&self)
Receiver == [typed |-> FALSE, name |-> "self", pat |-> "ident", attrs |-> <<>>, ty |-> "Self"]

\* FnArg::Typed(PatType { pat, ty, attrs }); pat is "ident" for Pat::Ident and
\* "wild" for any other pattern (_, a tuple pattern, ...)
Typed(name, pat, attrs, ty) ==
    [typed |-> TRUE, name |-> name, pat |-> pat, attrs |-> attrs, ty |-> ty]

\* a method attribute; meta holds the keys of #[api_handler(method = .., path = ..)]
NoMeta == [method |-> None, path |-> None]
Attr(name) == [name |-> name, meta |-> NoMeta]
ApiHandlerAttr(method, path) == [name |-> "api_handler", meta |-> [method |-> method, path |-> path]]

\* ImplItem::Fn(ImplItemFn); output is None for ReturnType::Default
ImplFn(ident, attrs, inputs, output) ==
    [isFn |-> TRUE, ident |-> ident, attrs |-> attrs, inputs |-> inputs, output |-> output]

\* a path template as its segments: a literal or a {name} placeholder
Lit(text) == [lit |-> TRUE, text |-> text]
Ph(name) == [lit |-> FALSE, text |-> name]

\* syn::Type: Type::Path with its path segments, or another type (Type::Tuple for ())
TyPath(segs) == [kind |-> "path", segs |-> segs]
UnitTy == [kind |-> "tuple", segs |-> <<>>]
\* syn::PathSegment { ident, arguments }; args is empty for PathArguments::None
Seg(ident, args) == [ident |-> ident, args |-> args]
\* syn::GenericArgument::Type and GenericArgument::Lifetime
TypeArg(ty) == [kind |-> "type", name |-> "", ty |-> <<ty>>]
LifetimeArg(name) == [kind |-> "lifetime", name |-> name, ty |-> <<>>]
\* a type that is a plain name, and a generic type of one segment
Named(ident) == TyPath(<<Seg(ident, <<>>)>>)
Generic(ident, args) == TyPath(<<Seg(ident, args)>>)

----------------------------------------------------------------------------
(* parse_handler and its helpers *)

\* take_param_attr: the kind of the first #[body] / #[path] / #[query] attribute
\* a take_param_attr that lets a later marker override an earlier one
take_param_attr_last(attrs) ==
    LET ix == {j \in 1..Len(attrs) : IsHelperAttr(attrs[j])}
        i == IF ix = {} THEN 0 ELSE CHOOSE j \in ix : \A k \in ix : k <= j
    IN  IF i = 0 THEN None
        ELSE IF attrs[i] = "body" THEN Some("Body")
        ELSE IF attrs[i] = "path" THEN Some("Path")
        ELSE Some("Query")

take_param_attr(attrs) ==
    LET i == FirstIdx(attrs, IsHelperAttr)
    IN  IF i = 0 THEN None
        ELSE IF attrs[i] = "body" THEN Some("Body")
        ELSE IF attrs[i] = "path" THEN Some("Path")
        ELSE Some("Query")

strip_helper_attrs(attrs) == LET Keep(a) == ~IsHelperAttr(a) IN Filter(attrs, Keep)

strip_api_handler_attr(attrs) == LET Keep(a) == a.name # "api_handler" IN Filter(attrs, Keep)

\* a from_meta whose fields have defaults (#[darling(default)])
from_meta_with_defaults(meta) ==
    [ok |-> TRUE,
     method |-> IF meta.method = None THEN <<"G", "E", "T">> ELSE meta.method[1],
     path |-> IF meta.path = None THEN <<>> ELSE meta.path[1]]

\* ApiHandlerArgs::from_meta (darling): both keys are required String fields
from_meta(meta) ==
    IF meta.method # None /\ meta.path # None
    THEN [ok |-> TRUE, method |-> meta.method[1], path |-> meta.path[1]]
    ELSE [ok |-> FALSE, method |-> <<>>, path |-> <<>>]

NoDiag == [msg |-> "", fn |-> "", param |-> ""]
Diag(msg, fn, param) == [msg |-> msg, fn |-> fn, param |-> param]

\* the arguments the parameter loop looks at: method.sig.inputs.iter().skip(1)
SkipFirst(inputs) == SubSeq(inputs, 2, Len(inputs))

\* whether the parameter loop reaches take_param_attr for this argument
IsParsedArg(arg) == arg.typed /\ arg.pat = "ident"

\* the parameter loop of parse_handler: the HandlerParams pushed
ParseParams(inputs) ==
    LET args == Filter(SkipFirst(inputs), IsParsedArg)
    IN  [i \in 1..Len(args) |->
            LET k == take_param_attr(args[i].attrs)
            IN  [name |-> args[i].name, ty |-> args[i].ty,
                 kind |-> IF k = None THEN "" ELSE k[1]]]

\* clean_method: the method without #[api_handler] and without helper attributes
CleanMethod(method) ==
    [method EXCEPT
        !.attrs = strip_api_handler_attr(method.attrs),
        !.inputs = [i \in 1..Len(method.inputs) |->
                       IF method.inputs[i].typed
                       THEN [method.inputs[i] EXCEPT !.attrs = strip_helper_attrs(@)]
                       ELSE method.inputs[i]]]

NoHandler ==
    [fn_name |-> "", method |-> <<>>, path |-> <<>>, params |-> <<>>,
     return_type |-> UnitTy, clean_method |-> ImplFn("", <<>>, <<>>, None)]

\* a missing return type read as ()
return_type_or_unit(output) == IF output = None THEN Some(UnitTy) ELSE output

\* the match on method.sig.output: Some(ty) for ReturnType::Type, None for the panic
\* of ReturnType::Default
return_type(output) == output

\* the method token stored as written
FoldMethodAsWritten(token) == token

\* args.method.to_uppercase(): the method token stored in the ParsedHandler
FoldMethod(token) == to_uppercase(token)

\* parse_handler: tag "None" (no #[api_handler]), "Panic" or "Some"
parse_handler(method) ==
    LET IsApi(a) == a.name = "api_handler"
        ai == FirstIdx(method.attrs, IsApi)
    IN  IF ai = 0 THEN [tag |-> "None", handler |-> NoHandler, diag |-> NoDiag]
        ELSE
        LET args == from_meta(method.attrs[ai].meta)
            params == ParseParams(method.inputs)
            Unmarked(p) == p.kind = ""
            bad == FirstIdx(params, Unmarked)
        IN  IF ~args.ok
            THEN [tag |-> "Panic", handler |-> NoHandler,
                  diag |-> Diag("Failed to parse #[api_handler] arguments", "", "")]
            ELSE IF bad # 0
            THEN [tag |-> "Panic", handler |-> NoHandler,
                  diag |-> Diag("must be annotated with #[body], #[path], or #[query]",
                                method.ident, params[bad].name)]
            ELSE IF return_type(method.output) = None
            THEN [tag |-> "Panic", handler |-> NoHandler,
                  diag |-> Diag("must have a return type", method.ident, "")]
            ELSE [tag |-> "Some",
                  handler |-> [fn_name |-> method.ident,
                               method |-> FoldMethod(args.method),
                               path |-> args.path,
                               params |-> params,
                               return_type |-> return_type(method.output)[1],
                               clean_method |-> CleanMethod(method)],
                  diag |-> NoDiag]

----------------------------------------------------------------------------
(* generate_axum_handler, generate_router, generate_client *)

IsPath(p) == p.kind = "Path"
IsQuery(p) == p.kind = "Query"
IsBody(p) == p.kind = "Body"

NamesOf(ps) == [i \in 1..Len(ps) |-> ps[i].name]
TypesOf(ps) == [i \in 1..Len(ps) |-> ps[i].ty]

Extractor(ex, names, tys) == [ex |-> ex, names |-> names, tys |-> tys]

\* the extractor_params of the handler, in the order they are pushed
HandlerExtractors(handler) ==
    LET path_params == Filter(handler.params, IsPath)
        query_params == Filter(handler.params, IsQuery)
        body_params == Filter(handler.params, IsBody)
    IN  <<Extractor("State", <<"state">>, <<"Arc">>)>>
        \o (IF Len(path_params) >= 1
            THEN <<Extractor("Path", NamesOf(path_params), TypesOf(path_params))>>
            ELSE <<>>)
        \o [i \in 1..Len(query_params) |->
              Extractor("Query", <<query_params[i].name>>, <<query_params[i].ty>>)]
        \o [i \in 1..Len(body_params) |->
              Extractor("Json", <<body_params[i].name>>, <<body_params[i].ty>>)]

\* the call_args of the handler, in the order they are pushed
HandlerCallArgs(handler) ==
    Filter(handler.params, IsPath) \o Filter(handler.params, IsQuery)
        \o Filter(handler.params, IsBody)

generate_axum_handler(handler) ==
    [handler_fn_name |-> "__axum_handler_" \o handler.fn_name,
     fn_name |-> handler.fn_name,
     extractor_params |-> HandlerExtractors(handler),
     call_args |-> NamesOf(HandlerCallArgs(handler))]

SupportedMethods == {GET, POST, PUT, DELETE, PATCH}

\* a match that routes every token
MethodFnAny(method) == Some(to_lowercase(method))

\* the match on handler.method of generate_router: the axum::routing function
MethodFn(method) ==
    IF method \in SupportedMethods THEN Some(to_lowercase(method)) ELSE None

\* path_to_axum: axum 0.8 uses the {name} syntax of the input
path_to_axum(path) == path

\* generate_router: panics at the first handler whose method is unsupported
generate_router(hs) ==
    LET Unsupported(h) == MethodFn(h.method) = None
        bad == FirstIdx(hs, Unsupported)
    IN  IF bad # 0
        THEN [ok |-> FALSE, routes |-> <<>>,
              diag |-> Diag("Unsupported HTTP method", hs[bad].fn_name, "")]
        ELSE [ok |-> TRUE,
              routes |-> [i \in 1..Len(hs) |->
                            [path |-> path_to_axum(hs[i].path),
                             method_fn |-> MethodFn(hs[i].method)[1],
                             handler |-> "__axum_handler_" \o hs[i].fn_name]],
              diag |-> NoDiag]

\* extract_inner_type: the first generic argument of the last path segment when it
\* is a type, the type itself otherwise
extract_inner_type(ty) ==
    IF ty.kind = "path" /\ ty.segs # <<>>
    THEN LET segment == ty.segs[Len(ty.segs)]
         IN  IF segment.args # <<>> /\ segment.args[1].kind = "type"
             THEN segment.args[1].ty[1]
             ELSE ty
    ELSE ty

\* the last element of a sequence as an Option (a variable assigned in a loop)
LastOf(s) == IF s = <<>> THEN None ELSE Some(s[Len(s)])

\* one client method of generate_client
ClientMethod(handler) ==
    [fn_name |-> handler.fn_name,
     fn_params |-> [i \in 1..Len(handler.params) |->
                      [name |-> handler.params[i].name, ty |-> handler.params[i].ty,
                       by_ref |-> handler.params[i].kind # "Path"]],
     path_format_args |-> NamesOf(Filter(handler.params, IsPath)),
     body_arg |-> LastOf(NamesOf(Filter(handler.params, IsBody))),
     query_arg |-> LastOf(NamesOf(Filter(handler.params, IsQuery))),
     path_str |-> handler.path,
     method_ident |-> to_lowercase(handler.method),
     inner_return_type |-> extract_inner_type(handler.return_type)]

generate_client(hs) == [i \in 1..Len(hs) |-> ClientMethod(hs[i])]

----------------------------------------------------------------------------
(* The impl blocks the macro is applied to *)

ParamNames == <<"a", "b", "c", "d", "e">>
FnNames == <<"f1", "f2", "f3", "f4">>
\* the parameters of a method all have the same type, or pairwise different types
TypeMixes == {"same", "distinct"}
TypeOf(mix, name) == IF mix = "same" THEN "T" ELSE "T_" \o name
RoleAttrs == {"body", "path", "query"}
\* MyAppResult<T>
ResultType == Generic("MyAppResult", <<TypeArg(Named("T"))>>)

\* /users, /users/{q1}, /users/{q1}/posts/{q2}, /users/{q1}/posts/{q2}/posts/{q3}, ...
Template(q) ==
    <<Lit("users")>>
    \o [i \in 1..(2 * Len(q) - 1) |-> IF i % 2 = 1 THEN Ph(q[(i + 1) \div 2]) ELSE Lit("posts")]

\* the path-role parameters' names and one name that is no parameter
ForeignName == "id"
PathNames(ps) == {ps[i].name : i \in {j \in 1..Len(ps) : take_param_attr(ps[j].attrs) = Some("Path")}}
PlaceholderSeqs(ps) == InjSeqsUpTo(PathNames(ps) \cup {ForeignName}, MaxPlaceholders)

\* n annotated parameters with the given roles, in the given type mix
WireParams(n, r, t) ==
    [i \in 1..n |-> Typed(ParamNames[i], "ident", <<r[i]>>, TypeOf(t, ParamNames[i]))]

\* one annotated method
WireService(ps, q) ==
    <<ImplFn("f1", <<ApiHandlerAttr(Some(POST), Some(Template(q)))>>,
             <<Receiver>> \o ps, Some(ResultType))>>

\* one annotated method, every role mix of up to MaxParams parameters in either type
\* mix, any placement of the placeholders
WireServices(svc) ==
    \E n \in 0..MaxParams : \E r \in [1..n -> RoleAttrs] : \E t \in TypeMixes :
        \E q \in PlaceholderSeqs(WireParams(n, r, t)) :
            svc = WireService(WireParams(n, r, t), q)

Title(w) == [i \in 1..Len(w) |-> IF i = 1 THEN w[i] ELSE ToLowerChar(w[i])]
Tokens == UNION {{w, to_lowercase(w), Title(w)} : w \in {GET, POST, PUT, DELETE, PATCH, TRACE}}

\* the tokens of the methods beside the one whose token varies
PlainTokens == {GET, to_lowercase(POST)}

\* services of parameterless methods, each on its own path: one method carries any
\* method token, the others a supported one
TokenServices(svc) ==
    \E n \in 1..MaxMethods : \E v \in 1..n : \E tv \in Tokens : \E t \in [1..n -> PlainTokens] :
        svc = [i \in 1..n |->
                 ImplFn(FnNames[i],
                        <<ApiHandlerAttr(Some(IF i = v THEN tv ELSE t[i]), Some(<<Lit(FnNames[i])>>))>>,
                        <<Receiver>>, Some(ResultType))]

AttrLists == {<<>>, <<"doc">>, <<"body">>, <<"doc", "query">>, <<"path", "body">>}
Pats == {"ident", "wild"}

\* one method with or without a receiver and any marking of its parameters
DeclServices(svc) ==
    \E n \in 0..MaxDeclParams : \E recv \in {<<Receiver>>, <<>>} :
        \E p \in [1..n -> Pats] : \E a \in [1..n -> AttrLists] :
            svc = <<ImplFn("f1", <<ApiHandlerAttr(Some(POST), Some(<<Lit("users")>>))>>,
                           recv \o [i \in 1..n |-> Typed(ParamNames[i], p[i], a[i], "T")],
                           Some(ResultType))>>

MarkerKinds == {"none", "doc", "no_method", "no_path", "empty", "complete"}

\* the attributes of a method: no marker, an incomplete marker, a complete marker
MarkerAttrs(kind, path) ==
    CASE kind = "none" -> <<>>
      [] kind = "doc" -> <<Attr("doc")>>
      [] kind = "no_method" -> <<ApiHandlerAttr(None, Some(path))>>
      [] kind = "no_path" -> <<ApiHandlerAttr(Some(GET), None)>>
      [] kind = "empty" -> <<ApiHandlerAttr(None, None)>>
      [] OTHER -> <<Attr("doc"), ApiHandlerAttr(Some(GET), Some(path))>>

\* ImplItem::Const and the other items that are not methods
ImplConst(ident) ==
    [isFn |-> FALSE, ident |-> ident, attrs |-> <<>>, inputs |-> <<>>, output |-> None]

\* item i of an impl block: a constant, or a method with the given marker, with or
\* without a declared return type
MarkerItem(i, k, m) ==
    IF k = "const" THEN ImplConst(FnNames[i])
    ELSE ImplFn(FnNames[i], MarkerAttrs(m, <<Lit(FnNames[i])>>), <<Receiver>>,
                IF k = "fn" THEN Some(ResultType) ELSE None)

\* the items beside the one whose marker varies: a constant, a helper method, a handler
PlainItems == {<<"const", "none">>, <<"fn", "none">>, <<"fn", "complete">>}

\* services whose items carry a complete, an incomplete or no #[api_handler] marker:
\* one item of any kind with any marker among constants, helpers and handlers
MarkerServices(svc) ==
    \E n \in 1..MaxMethods : \E v \in 1..n :
        \E k \in {"const", "fn", "fn_no_ret"} : \E m \in MarkerKinds : \E r \in [1..n -> PlainItems] :
            svc = [i \in 1..n |->
                     IF i = v THEN MarkerItem(i, k, m) ELSE MarkerItem(i, r[i][1], r[i][2])]

\* declared result types: MyAppResult<T>, MyAppResult<()>, Result<Option<User>, Error>,
\* std::result::Result<User, Error>, Option<Vec<User>>, Wrapper<'a, User>, String, ()
ReturnTypes ==
    {ResultType,
     Generic("MyAppResult", <<TypeArg(UnitTy)>>),
     Generic("Result", <<TypeArg(Generic("Option", <<TypeArg(Named("User"))>>)),
                         TypeArg(Named("Error"))>>),
     TyPath(<<Seg("std", <<>>), Seg("result", <<>>),
              Seg("Result", <<TypeArg(Named("User")), TypeArg(Named("Error"))>>)>>),
     Generic("Option", <<TypeArg(Generic("Vec", <<TypeArg(Named("User"))>>))>>),
     Generic("Wrapper", <<LifetimeArg("a"), TypeArg(Named("User"))>>),
     Named("String"),
     UnitTy}

\* one parameterless method with any declared result type
TypeServices(svc) ==
    \E ty \in ReturnTypes :
        svc = <<ImplFn("f1", <<ApiHandlerAttr(Some(GET), Some(<<Lit("f1")>>))>>,
                       <<Receiver>>, Some(ty))>>

----------------------------------------------------------------------------
(* The expansion of #[api] *)

\* the state of api() on entry and of the generated code before any call
Boot ==
    /\ pc = "parse"
    /\ idx = 1
    /\ handlers = <<>>
    /\ cleaned_items = <<>>
    /\ axum_handlers = <<>>
    /\ router_impl = <<>>
    /\ client = <<>>
    /\ expanded = None
    /\ diag = NoDiag
    /\ rt = "idle"
    /\ call = None
    /\ request = None
    /\ invocation = None
    /\ result = None
    /\ response = None
    /\ sent = 0
    /\ transport = None
    /\ outcome = None
    /\ calls = <<>>
    /\ net = <<>>
    /\ cells = <<>>

\* the settings row after the migrations: no album selected, index 0, three minutes
DefaultInterval == 180
DefaultSettings ==
    [current_album_id |-> None, current_photo_index |-> 0, interval_seconds |-> DefaultInterval]

\* the tables photo, album, album_photo and the one row of settings
EmptyDb == [photo |-> {}, album |-> {}, album_photo |-> {}, settings |-> DefaultSettings]

\* no request has completed yet
NoLast == [op |-> "", status |-> 0, msg |-> "", photo |-> 0, interval_out |-> <<0, 0>>]

\* the viewer before it is mounted: the signals of App() and its pending timers,
\* each timer by the seconds it was set for
Unmounted ==
    [mounted |-> FALSE, fetch_trigger |-> 0, effect |-> FALSE, fetching |-> 0,
     fetch_timers |-> <<>>, overlay_timers |-> <<>>, overlay_visible |-> TRUE,
     current |-> None]

\* the answers given so far, in the order of their return, and the photo index
\* the settings held when the first request came in
NoServed == [from |-> 0, replies |-> <<>>]

\* a fresh database, an idle server, no viewer
AppBoot ==
    /\ db = EmptyDb
    /\ last = NoLast
    /\ reqs = <<>>
    /\ served = NoServed
    /\ view = Unmounted

Init ==
    /\ \/ WireServices(items)
       \/ TokenServices(items)
       \/ DeclServices(items)
       \/ MarkerServices(items)
       \/ TypeServices(items)
    /\ Boot
    /\ AppBoot

\* a loop that keeps only the annotated methods
PushCleanedAnnotatedOnly(cleaned, item, parsed) ==
    IF parsed.tag = "Some" THEN Append(cleaned, parsed.handler.clean_method) ELSE cleaned

\* cleaned_items.push(..): the clean method of a handler, any other item as it is
PushCleaned(cleaned, item, parsed) ==
    Append(cleaned, IF parsed.tag = "Some" THEN parsed.handler.clean_method ELSE item)

\* one iteration of `for item in &input.items`
ParseItem ==
    /\ pc = "parse"
    /\ idx <= Len(items)
    /\ LET item == items[idx]
           parsed == IF item.isFn THEN parse_handler(item)
                     ELSE [tag |-> "None", handler |-> NoHandler, diag |-> NoDiag]
       IN  IF parsed.tag = "Panic"
           THEN /\ pc' = "failed"
                /\ diag' = parsed.diag
                /\ UNCHANGED <<idx, handlers, cleaned_items>>
           ELSE /\ cleaned_items' = PushCleaned(cleaned_items, item, parsed)
                /\ handlers' = IF parsed.tag = "Some"
                               THEN Append(handlers, parsed.handler) ELSE handlers
                /\ idx' = idx + 1
                /\ pc' = IF idx = Len(items) THEN "handlers" ELSE "parse"
                /\ UNCHANGED diag
    /\ UNCHANGED <<items, axum_handlers, router_impl, client, expanded>>
    /\ UNCHANGED rtVars
    /\ UNCHANGED concVars
    /\ UNCHANGED appVars

GenerateAxumHandlers ==
    /\ pc = "handlers"
    /\ axum_handlers' = [i \in 1..Len(handlers) |-> generate_axum_handler(handlers[i])]
    /\ pc' = "router"
    /\ UNCHANGED <<items, idx, handlers, cleaned_items, router_impl, client, expanded, diag>>
    /\ UNCHANGED rtVars
    /\ UNCHANGED concVars
    /\ UNCHANGED appVars

GenerateRouter ==
    /\ pc = "router"
    /\ LET r == generate_router(handlers)
       IN  IF r.ok
           THEN /\ router_impl' = r.routes
                /\ pc' = "client"
                /\ UNCHANGED diag
           ELSE /\ pc' = "failed"
                /\ diag' = r.diag
                /\ UNCHANGED router_impl
    /\ UNCHANGED <<items, idx, handlers, cleaned_items, axum_handlers, client, expanded>>
    /\ UNCHANGED rtVars
    /\ UNCHANGED concVars
    /\ UNCHANGED appVars

GenerateClient ==
    /\ pc = "client"
    /\ client' = generate_client(handlers)
    /\ pc' = "emit"
    /\ UNCHANGED <<items, idx, handlers, cleaned_items, axum_handlers, router_impl, expanded, diag>>
    /\ UNCHANGED rtVars
    /\ UNCHANGED concVars
    /\ UNCHANGED appVars

\* the quote! that assembles the output of the macro
Emit ==
    /\ pc = "emit"
    /\ expanded' = Some([items |-> cleaned_items, router |-> router_impl,
                         handlers |-> axum_handlers, client |-> client])
    /\ pc' = "emitted"
    /\ UNCHANGED <<items, idx, handlers, cleaned_items, axum_handlers, router_impl, client, diag>>
    /\ UNCHANGED rtVars
    /\ UNCHANGED concVars
    /\ UNCHANGED appVars

----------------------------------------------------------------------------
(* Values and their wire encodings *)

\* an identifier (u32 newtype) and a query struct {page: Option<u32>, limit: Option<u32>}
Id(n) == [kind |-> "id", id |-> n, page |-> None, limit |-> None]
Params(page, limit) == [kind |-> "params", id |-> 0, page |-> page, limit |-> limit]
Unit == [kind |-> "unit", id |-> 0, page |-> None, limit |-> None]

Ids == {Id(n) : n \in 1..MaxVal}
\* an optional field is absent or present
Opts == {None, Some(1)}
QueryValues == {Params(p, l) : p \in Opts, l \in Opts}

DigitStr == <<"1", "2", "3", "4", "5", "6", "7", "8", "9">>

\* impl Display for UserId: the decimal digits
Display(v) == DigitStr[v.id]

\* impl FromStr for UserId: None when the text is not a number
FromStr(text) ==
    IF \E n \in 1..Len(DigitStr) : DigitStr[n] = text
    THEN Some(Id(CHOOSE n \in 1..Len(DigitStr) : DigitStr[n] = text))
    ELSE None

\* serde_json of a payload
to_json(v) == IF v.kind = "unit" THEN "null" ELSE DigitStr[v.id]

from_json(text) == IF text = "null" THEN Some(Unit) ELSE FromStr(text)

\* response.json::<T>(): None when the text is not the JSON of a T
from_json_as(ty, text) ==
    IF ty = UnitTy THEN (IF text = "null" THEN Some(Unit) ELSE None) ELSE FromStr(text)

\* serde_urlencoded::to_string of the query struct: key=value pairs, None fields omitted
urlencoded(v) ==
    (IF v.page = None THEN <<>> ELSE <<<<"page", DigitStr[v.page[1]]>>>>)
    \o (IF v.limit = None THEN <<>> ELSE <<<<"limit", DigitStr[v.limit[1]]>>>>)

\* a decoder that gives an absent field the value 1
QueryFieldDefaulting(qs, key) ==
    LET HasKey(kv) == kv[1] = key
        i == FirstIdx(qs, HasKey)
    IN  IF i = 0 THEN Some(1) ELSE Some(FromStr(qs[i][2])[1].id)

\* the value of a key in a query string, None when the key is absent
QueryField(qs, key) ==
    LET HasKey(kv) == kv[1] = key
        i == FirstIdx(qs, HasKey)
    IN  IF i = 0 THEN None ELSE Some(FromStr(qs[i][2])[1].id)

\* axum::extract::Query<T>: the query struct decoded from the query string
from_urlencoded(qs) == Params(QueryField(qs, "page"), QueryField(qs, "limit"))

----------------------------------------------------------------------------
(* What the compiler and axum accept of the emitted code *)

\* the names of the {name} placeholders of a template, left to right
PlaceholderNames(path) ==
    LET IsPh(seg) == ~seg.lit
        phs == Filter(path, IsPh)
    IN  [i \in 1..Len(phs) |-> phs[i].text]

\* format!(concat!("{}", path), self.base_url, name = name, ...): every {name} of the
\* template must be a named argument and every named argument must be used
FormatCompiles(cm) ==
    IF cm.path_format_args = <<>> THEN TRUE
    ELSE Range(PlaceholderNames(cm.path_str)) = Range(cm.path_format_args)

\* state.fn_name(call_args).await against the signature of the re-emitted method
CallCompiles(handler, ah) ==
    LET inputs == handler.clean_method.inputs
        declared == SkipFirst(inputs)
        TyOf(name) == (CHOOSE p \in Range(handler.params) : p.name = name).ty
    IN  /\ inputs # <<>>
        /\ ~inputs[1].typed
        /\ Len(ah.call_args) = Len(declared)
        /\ \A j \in 1..Len(declared) : TyOf(ah.call_args[j]) = declared[j].ty

\* axum's Handler: only the last extractor may consume the request body
ExtractorsCompile(ah) ==
    LET IsJson(e) == e.ex = "Json" IN Len(Filter(ah.extractor_params, IsJson)) <= 1

\* the emitted code builds: the run-time steps below exist only then
Builds ==
    /\ pc = "emitted"
    /\ \A i \in 1..Len(handlers) :
          /\ FormatCompiles(client[i])
          /\ CallCompiles(handlers[i], axum_handlers[i])
          /\ ExtractorsCompile(axum_handlers[i])

----------------------------------------------------------------------------
(* The generated client method *)

\* the argument the caller supplied for the parameter called name
ArgOf(cm, args, name) ==
    args[CHOOSE k \in 1..Len(cm.fn_params) : cm.fn_params[k].name = name]

\* a client that fills the i-th placeholder with the i-th Path-role argument
ClientPathPositional(cm, args) ==
    [i \in 1..Len(cm.path_str) |->
        IF cm.path_str[i].lit THEN cm.path_str[i].text
        ELSE IF cm.path_format_args = <<>> THEN "{" \o cm.path_str[i].text \o "}"
        ELSE Display(ArgOf(cm, args,
                 cm.path_format_args[Cardinality({j \in 1..i : ~cm.path_str[j].lit})]))]

\* base_url_expr: the path after the base URL, as its segments
ClientPath(cm, args) ==
    [i \in 1..Len(cm.path_str) |->
        IF cm.path_str[i].lit THEN cm.path_str[i].text
        ELSE IF cm.path_format_args = <<>> THEN "{" \o cm.path_str[i].text \o "}"
        ELSE Display(ArgOf(cm, args, cm.path_str[i].text))]

\* url_expr: Some(query string) when "?" and the query string are appended
ClientQuery(cm, args) ==
    IF cm.query_arg = None THEN None
    ELSE LET query_string == urlencoded(ArgOf(cm, args, cm.query_arg[1]))
         IN  IF query_string = <<>> THEN None ELSE Some(query_string)

\* request_chain: the request handed to reqwest
ClientRequest(cm, args) ==
    [method |-> cm.method_ident,
     path |-> ClientPath(cm, args),
     query |-> ClientQuery(cm, args),
     body |-> IF cm.body_arg = None THEN None
              ELSE Some(to_json(ArgOf(cm, args, cm.body_arg[1])))]

\* the values a caller may pass for a parameter of the given role
ValuesOf(kind) == IF kind = "Query" THEN QueryValues ELSE Ids

RECURSIVE ArgSeqs(_)
\* the argument lists for parameters of the given kinds, one value per parameter
ArgSeqs(params) ==
    IF params = <<>> THEN {<<>>}
    ELSE {<<v>> \o rest : v \in ValuesOf(Head(params).kind), rest \in ArgSeqs(Tail(params))}

\* the argument lists a caller may pass to client method m
ArgLists(m) == ArgSeqs(handlers[m].params)

----------------------------------------------------------------------------
(* The router and the generated handler *)

\* whether a request path matches a route template (matchit)
PathMatches(tpl, path) ==
    /\ Len(tpl) = Len(path)
    /\ \A i \in 1..Len(tpl) : tpl[i].lit => tpl[i].text = path[i]

\* the captured segments of a matching path, in template order
Captures(tpl, path) ==
    LET ix == SortedSeq({i \in 1..Len(tpl) : ~tpl[i].lit}) IN [k \in 1..Len(ix) |-> path[ix[k]]]

Status(code) == [status |-> code, body |-> ""]

\* the extractors of the handler run on the request: a rejection or the bound names
RunExtractors(ah, tpl, req) ==
    LET IsEx(kind) == LET T(e) == e.ex = kind IN Filter(ah.extractor_params, T)
        pathEx == IsEx("Path")
        queryEx == IsEx("Query")
        jsonEx == IsEx("Json")
        caps == Captures(tpl, req.path)
        pathNames == IF pathEx = <<>> THEN <<>> ELSE pathEx[1].names
        queryNames == [i \in 1..Len(queryEx) |-> queryEx[i].names[1]]
        jsonNames == [i \in 1..Len(jsonEx) |-> jsonEx[i].names[1]]
        qs == IF req.query = None THEN <<>> ELSE req.query[1]
    IN  IF pathEx # <<>> /\ Len(caps) # Len(pathNames)
        THEN [ok |-> FALSE, reject |-> Status(500), env |-> <<>>]
        ELSE IF pathEx # <<>> /\ \E j \in 1..Len(caps) : FromStr(caps[j]) = None
        THEN [ok |-> FALSE, reject |-> Status(400), env |-> <<>>]
        ELSE IF jsonEx # <<>> /\ req.body = None
        THEN [ok |-> FALSE, reject |-> Status(415), env |-> <<>>]
        ELSE IF jsonEx # <<>> /\ from_json(req.body[1]) = None
        THEN [ok |-> FALSE, reject |-> Status(422), env |-> <<>>]
        ELSE [ok |-> TRUE, reject |-> Status(0),
              env |-> [j \in 1..Len(pathNames) |-> <<pathNames[j], FromStr(caps[j])[1]>>]
                      \o [j \in 1..Len(queryNames) |-> <<queryNames[j], from_urlencoded(qs)>>]
                      \o [j \in 1..Len(jsonNames) |-> <<jsonNames[j], from_json(req.body[1])[1]>>]]

\* the value bound to a name by the extractors
Bound(env, name) == env[CHOOSE j \in 1..Len(env) : env[j][1] = name][2]

\* state.fn_name(call_args): the service method and its arguments, by position
Invoke(ah, env) ==
    [fn_name |-> ah.fn_name, args |-> [j \in 1..Len(ah.call_args) |-> Bound(env, ah.call_args[j])]]

\* the routes of the router whose template matches the request path
MatchingRoutes(routes, req) == {i \in 1..Len(routes) : PathMatches(routes[i].path, req.path)}

----------------------------------------------------------------------------
(* The three-variant result and its conversion to a response *)

Messages == {"Photo 5 not found"}

Ok(val) == [tag |-> "Ok", val |-> val, msg |-> ""]
NotFound(msg) == [tag |-> "NotFound", val |-> Unit, msg |-> msg]
InternalError(msg) == [tag |-> "InternalError", val |-> Unit, msg |-> msg]

\* the payloads of a success type: () or an identifier
PayloadsOf(ty) == IF ty = UnitTy THEN {Unit} ELSE {Id(1)}

\* the results a service method declared as MyAppResult<ty> may return
Results(ty) ==
    {Ok(v) : v \in PayloadsOf(ty)} \cup {NotFound(m) : m \in Messages}
        \cup {InternalError(m) : m \in Messages}

\* the declared result type is the three-variant result
IsThreeVariant(ty) ==
    ty.kind = "path" /\ ty.segs # <<>> /\ ty.segs[Len(ty.segs)].ident = "MyAppResult"

\* serde_json::json!({ "error": msg }) as the response text
ErrorJson(msg) == "{\"error\":\"" \o msg \o "\"}"

\* a conversion that answers 500 for NotFound as well
into_response_no_404(self) ==
    CASE self.tag = "Ok" -> [status |-> 200, body |-> to_json(self.val)]
      [] OTHER -> [status |-> 500, body |-> ErrorJson(self.msg)]

\* impl IntoResponse for APIResult<T>
into_response(self) ==
    CASE self.tag = "Ok" -> [status |-> 200, body |-> to_json(self.val)]
      [] self.tag = "NotFound" -> [status |-> 404, body |-> ErrorJson(self.msg)]
      [] OTHER -> [status |-> 500, body |-> ErrorJson(self.msg)]

----------------------------------------------------------------------------
(* The generated code at run time *)

\* reqwest::StatusCode::is_success: 200..=299
is_success(status) == status >= 200 /\ status <= 299

\* what the transport gives the client: send() failed, or a response with its status
\* and its text (None when the body cannot be read)
SendFailed == [ok |-> FALSE, status |-> 0, text |-> None]
Received(status, text) == [ok |-> TRUE, status |-> status, text |-> text]

\* the variants of Result<inner_return_type, ClientError>
OkPayload(v) == [tag |-> "Ok", payload |-> v, status |-> 0, body |-> "", cause |-> ""]
RequestError(cause) == [tag |-> "Request", payload |-> Unit, status |-> 0, body |-> "", cause |-> cause]
ApiError(status, body) == [tag |-> "Api", payload |-> Unit, status |-> status, body |-> body, cause |-> ""]

\* a client method body that decodes the body before looking at the status
ClientOutcomeDecodeFirst(cm, tr) ==
    IF ~tr.ok THEN RequestError("send")
    ELSE IF tr.text # None /\ from_json_as(cm.inner_return_type, tr.text[1]) # None
    THEN OkPayload(from_json_as(cm.inner_return_type, tr.text[1])[1])
    ELSE IF ~is_success(tr.status)
    THEN ApiError(tr.status, IF tr.text = None THEN "" ELSE tr.text[1])
    ELSE RequestError("decode")

\* the body of the client method after the request chain: map_err(Request)?, the
\* status check with text().await.unwrap_or_default(), json().await.map_err(Request)
ClientOutcome(cm, tr) ==
    IF ~tr.ok THEN RequestError("send")
    ELSE IF ~is_success(tr.status)
    THEN ApiError(tr.status, IF tr.text = None THEN "" ELSE tr.text[1])
    ELSE IF tr.text = None THEN RequestError("decode")
    ELSE IF from_json_as(cm.inner_return_type, tr.text[1]) = None THEN RequestError("decode")
    ELSE OkPayload(from_json_as(cm.inner_return_type, tr.text[1])[1])

\* a client method that sends the request again after an error, once
after_attempt_retry(o) == IF o.tag # "Ok" /\ sent < 2 THEN "sent" ELSE "returned"

\* where the client method goes after an attempt: `?` and `return Err(..)` leave the
\* method, the request chain is in no loop
after_attempt(o) == "returned"

\* a caller invokes client method m; the request goes on the wire
ClientCall ==
    /\ Builds
    /\ rt = "idle"
    /\ \E m \in 1..Len(client) : \E args \in ArgLists(m) :
          /\ IsThreeVariant(handlers[m].return_type)
          /\ call' = Some([method |-> m, fn_name |-> client[m].fn_name, args |-> args])
          /\ request' = Some(ClientRequest(client[m], args))
    /\ rt' = "sent"
    /\ sent' = sent + 1
    /\ UNCHANGED genVars
    /\ UNCHANGED concVars
    /\ UNCHANGED appVars
    /\ UNCHANGED <<invocation, result, response, transport, outcome>>

\* the client method has what the transport gave it and returns, or sends again
ClientFinish(tr) ==
    LET o == ClientOutcome(client[call[1].method], tr)
    IN  /\ transport' = Some(tr)
        /\ IF after_attempt(o) = "returned"
           THEN /\ outcome' = Some(o)
                /\ rt' = "returned"
                /\ UNCHANGED sent
           ELSE /\ rt' = "sent"
                /\ sent' = sent + 1
                /\ UNCHANGED outcome

\* send() fails: nothing listens at the base URL
SendFails ==
    /\ rt = "sent"
    /\ ClientFinish(SendFailed)
    /\ UNCHANGED genVars
    /\ UNCHANGED concVars
    /\ UNCHANGED appVars
    /\ UNCHANGED <<call, request, invocation, result, response>>

\* the responses of a server at the base URL that is not the generated router
OtherResponses ==
    {[status |-> 200, body |-> "oops"], [status |-> 204, body |-> ""],
     [status |-> 201, body |-> "1"], [status |-> 503, body |-> "1"]}

\* another server answers the request
OtherServerResponds ==
    /\ rt = "sent"
    /\ \E r \in OtherResponses : response' = Some(r)
    /\ rt' = "answered"
    /\ UNCHANGED genVars
    /\ UNCHANGED concVars
    /\ UNCHANGED appVars
    /\ UNCHANGED <<call, request, invocation, result, sent, transport, outcome>>

\* the route the router serves a request with: 0 with the status it answers instead
Route(routes, req) ==
    LET matching == MatchingRoutes(routes, req)
        allowed == {i \in matching : routes[i].method_fn = req.method}
    IN  IF matching = {} THEN [route |-> 0, status |-> 404]
        ELSE IF allowed = {} THEN [route |-> 0, status |-> 405]
        ELSE [route |-> CHOOSE i \in allowed : TRUE, status |-> 0]

\* the router picks the route, the handler extracts and calls the service method
RouterDispatch ==
    /\ rt = "sent"
    /\ LET req == request[1]
           r == Route(router_impl, req)
       IN  IF r.route = 0
           THEN /\ response' = Some(Status(r.status))
                /\ rt' = "responded"
                /\ UNCHANGED invocation
           ELSE LET ex == RunExtractors(axum_handlers[r.route], router_impl[r.route].path, req)
                IN  IF ex.ok
                    THEN /\ invocation' = Some(Invoke(axum_handlers[r.route], ex.env))
                         /\ rt' = "invoked"
                         /\ UNCHANGED response
                    ELSE /\ response' = Some(ex.reject)
                         /\ rt' = "responded"
                         /\ UNCHANGED invocation
    /\ UNCHANGED genVars
    /\ UNCHANGED concVars
    /\ UNCHANGED appVars
    /\ UNCHANGED <<call, request, result, sent, transport, outcome>>

\* the MethodSpec of the service method the handler invoked
InvokedHandler ==
    handlers[CHOOSE i \in 1..Len(handlers) : handlers[i].fn_name = invocation[1].fn_name]

\* the service method returns and the handler converts its result
ServiceReturn ==
    /\ rt = "invoked"
    /\ \E r \in Results(extract_inner_type(InvokedHandler.return_type)) :
          /\ result' = Some(r)
          /\ response' = Some(into_response(r))
    /\ rt' = "responded"
    /\ UNCHANGED genVars
    /\ UNCHANGED concVars
    /\ UNCHANGED appVars
    /\ UNCHANGED <<call, request, invocation, sent, transport, outcome>>

\* the response reaches the client; its body may fail to be read
ClientReceive ==
    /\ rt \in {"responded", "answered"}
    /\ \E readable \in BOOLEAN :
          ClientFinish(Received(response[1].status,
                                IF readable THEN Some(response[1].body) ELSE None))
    /\ UNCHANGED genVars
    /\ UNCHANGED concVars
    /\ UNCHANGED appVars
    /\ UNCHANGED <<call, request, invocation, result, response>>

Next ==
    \/ ParseItem
    \/ GenerateAxumHandlers
    \/ GenerateRouter
    \/ GenerateClient
    \/ Emit
    \/ ClientCall
    \/ SendFails
    \/ OtherServerResponds
    \/ RouterDispatch
    \/ ServiceReturn
    \/ ClientReceive

Spec == Init /\ [][Next]_vars

----------------------------------------------------------------------------
(* The router under requests that do not come from the generated client *)

\* impl MyServerApp of the tests: create_user, get_user, delete_user, list_users and
\* the unannotated some_internal_helper
TestService ==
    <<ImplFn("create_user", <<ApiHandlerAttr(Some(POST), Some(<<Lit("users")>>))>>,
             <<Receiver, Typed("req", "ident", <<"body">>, "T")>>, Some(ResultType)),
      ImplFn("get_user", <<ApiHandlerAttr(Some(GET), Some(<<Lit("users"), Ph("id")>>))>>,
             <<Receiver, Typed("id", "ident", <<"path">>, "T")>>, Some(ResultType)),
      ImplFn("delete_user",
             <<ApiHandlerAttr(Some(DELETE), Some(<<Lit("users"), Ph("id")>>)), Attr("allow")>>,
             <<Receiver, Typed("id", "ident", <<"path">>, "T")>>,
             Some(Generic("MyAppResult", <<TypeArg(UnitTy)>>))),
      ImplFn("list_users", <<ApiHandlerAttr(Some(GET), Some(<<Lit("users")>>))>>,
             <<Receiver, Typed("params", "ident", <<"query">>, "T")>>, Some(ResultType)),
      ImplFn("some_internal_helper", <<Attr("allow")>>, <<Receiver>>, Some(Named("String")))>>

\* a method token on a template: /users or /users/{id}
RoutePairs ==
    {[token |-> t, tpl |-> p] : t \in {GET, POST, DELETE},
                               p \in {<<Lit("users")>>, <<Lit("users"), Ph("id")>>}}

\* services of up to MaxRoutes methods on pairwise different (method, path) pairs
RouteServices(svc) ==
    \E r \in InjSeqsUpTo(RoutePairs, MaxRoutes) :
        /\ r # <<>>
        /\ svc = [i \in 1..Len(r) |->
                    ImplFn(FnNames[i], <<ApiHandlerAttr(Some(r[i].token), Some(r[i].tpl))>>,
                           <<Receiver>> \o (IF Len(r[i].tpl) = 2
                                            THEN <<Typed("id", "ident", <<"path">>, "T")>>
                                            ELSE <<>>),
                           Some(ResultType))]

\* Request::builder().method(..).uri(..).body(Body::empty())
RawRequests ==
    {[method |-> m, path |-> p, query |-> None, body |-> None] :
        m \in {to_lowercase(GET), to_lowercase(POST), to_lowercase(DELETE)},
        p \in {<<"users">>, <<"users", "4">>, <<"users", "abc">>, <<"unknown", "path">>}}

RouterInit ==
    /\ \/ RouteServices(items)
       \/ items = TestService
    /\ Boot
    /\ AppBoot

\* router.oneshot(request)
RawRequest ==
    /\ Builds
    /\ rt = "idle"
    /\ \E r \in RawRequests : request' = Some(r)
    /\ rt' = "sent"
    /\ UNCHANGED genVars
    /\ UNCHANGED concVars
    /\ UNCHANGED appVars
    /\ UNCHANGED <<call, invocation, result, response, sent, transport, outcome>>

RouterNext ==
    \/ ParseItem
    \/ GenerateAxumHandlers
    \/ GenerateRouter
    \/ GenerateClient
    \/ Emit
    \/ RawRequest
    \/ RouterDispatch
    \/ ServiceReturn

RouterSpec == RouterInit /\ [][RouterNext]_vars

----------------------------------------------------------------------------
(* Concurrent calls of get_user on one shared client instance *)

\* the service of the concurrent test: get_user, GET /users/{id}
ConcInit ==
    /\ items = <<TestService[2]>>
    /\ Boot
    /\ AppBoot

\* a message on a connection
ReqMsg(req) == [kind |-> "req", request |-> Some(req), response |-> None]
RespMsg(resp) == [kind |-> "resp", request |-> None, response |-> Some(resp)]

\* the loop that spawns the tasks: task i will call get_user(UserId(i))
Spawn ==
    /\ Builds
    /\ calls = <<>>
    /\ calls' = [i \in 1..MaxCalls |->
                  [arg |-> i, state |-> "idle", conn |-> 0, outcome |-> None]]
    /\ net' = [c \in 1..MaxCalls |-> None]
    /\ cells' = [i \in 1..MaxCalls |-> None]
    /\ UNCHANGED genVars
    /\ UNCHANGED rtVars
    /\ UNCHANGED appVars

\* a connection no call in flight is using
IsFree(c) == net[c] = None /\ \A j \in 1..Len(calls) : calls[j].state = "sent" => calls[j].conn # c

\* a call keeps its response in one cell for all calls
ResponseCellShared(i) == 1

\* where call i keeps the response it received: `let response`, a local of the call
ResponseCell(i) == i

\* a task runs the client method up to send().await: the request is on a connection
ConcCall ==
    /\ \E i \in 1..Len(calls) : \E c \in 1..Len(net) :
          /\ calls[i].state = "idle"
          /\ IsFree(c)
          /\ net' = [net EXCEPT ![c] = Some(ReqMsg(ClientRequest(client[1], <<Id(calls[i].arg)>>)))]
          /\ calls' = [calls EXCEPT ![i].state = "sent", ![i].conn = c]
    /\ UNCHANGED cells
    /\ UNCHANGED genVars
    /\ UNCHANGED rtVars
    /\ UNCHANGED appVars

\* the response of the server to a request: get_user answers Ok with the id of its path
ServerResponse(req) ==
    LET r == Route(router_impl, req)
    IN  IF r.route = 0 THEN Status(r.status)
        ELSE LET ex == RunExtractors(axum_handlers[r.route], router_impl[r.route].path, req)
             IN  IF ex.ok
                 THEN into_response(Ok(Invoke(axum_handlers[r.route], ex.env).args[1]))
                 ELSE ex.reject

\* the server serves the request of one connection
ConcServe ==
    /\ \E c \in 1..Len(net) :
          /\ net[c] # None
          /\ net[c][1].kind = "req"
          /\ net' = [net EXCEPT ![c] = Some(RespMsg(ServerResponse(net[c][1].request[1])))]
    /\ UNCHANGED <<calls, cells>>
    /\ UNCHANGED genVars
    /\ UNCHANGED rtVars
    /\ UNCHANGED appVars

\* send().await completes in a task: the response of its connection
ConcReceive ==
    /\ \E i \in 1..Len(calls) :
          /\ calls[i].state = "sent"
          /\ net[calls[i].conn] # None
          /\ net[calls[i].conn][1].kind = "resp"
          /\ cells' = [cells EXCEPT ![ResponseCell(i)] = net[calls[i].conn][1].response]
          /\ net' = [net EXCEPT ![calls[i].conn] = None]
          /\ calls' = [calls EXCEPT ![i].state = "received"]
    /\ UNCHANGED genVars
    /\ UNCHANGED rtVars
    /\ UNCHANGED appVars

\* the task checks the status, decodes the body and returns
ConcReturn ==
    /\ \E i \in 1..Len(calls) :
          /\ calls[i].state = "received"
          /\ LET resp == cells[ResponseCell(i)][1]
             IN  calls' = [calls EXCEPT
                            ![i].state = "returned",
                            ![i].outcome = Some(ClientOutcome(client[1],
                                               Received(resp.status, Some(resp.body))))]
    /\ UNCHANGED <<net, cells>>
    /\ UNCHANGED genVars
    /\ UNCHANGED rtVars
    /\ UNCHANGED appVars

ConcNext ==
    \/ ParseItem
    \/ GenerateAxumHandlers
    \/ GenerateRouter
    \/ GenerateClient
    \/ Emit
    \/ Spawn
    \/ ConcCall
    \/ ConcServe
    \/ ConcReceive
    \/ ConcReturn

ConcSpec == ConcInit /\ [][ConcNext]_vars

----------------------------------------------------------------------------
(* The photo frame server: the handlers of `impl App` over the database *)

\* `seconds as u32` of an i32, as the two 16-bit halves of the u32
AsU32(v) ==
    IF v >= 0 THEN <<v \div 65536, v % 65536>>
    ELSE <<65535 - ((-v - 1) \div 65536), 65535 - ((-v - 1) % 65536)>>

\* the id of an inserted row: one more than the largest id of the table
NextId(ids) == IF ids = {} THEN 1 ELSE 1 + CHOOSE m \in ids : \A n \in ids : n <= m

RECURSIVE OrderByPosition(_)
\* ORDER BY ap.position: the photo ids of the rows by increasing position
OrderByPosition(rows) ==
    IF rows = {} THEN <<>>
    ELSE LET r == CHOOSE x \in rows : \A y \in rows : x.position <= y.position
         IN  <<r.photo_id>> \o OrderByPosition(rows \ {r})

\* SELECT p.* FROM photo p JOIN album_photo ap ... WHERE ap.album_id = ? ORDER BY ap.position
AlbumPhotos(d, a) ==
    OrderByPosition({r \in d.album_photo : r.album_id = a /\ r.photo_id \in d.photo})

\* a rotation that falls back to the library when the current album is empty
RotationSetOrLibrary(d, settings) ==
    IF settings.current_album_id # None /\ AlbumPhotos(d, settings.current_album_id[1]) # <<>>
    THEN AlbumPhotos(d, settings.current_album_id[1])
    ELSE SortedSeq(d.photo)

\* the photos get_next_photo rotates over: the current album's, or the whole library's
RotationSet(d, settings) ==
    IF settings.current_album_id # None
    THEN AlbumPhotos(d, settings.current_album_id[1])
    ELSE SortedSeq(d.photo)

\* SELECT MAX(position) FROM album_photo WHERE album_id = ?, -1 for no row
MaxPositionOf(d, a) ==
    LET ps == {r.position : r \in {x \in d.album_photo : x.album_id = a}}
    IN  IF ps = {} THEN -1 ELSE CHOOSE m \in ps : \A n \in ps : n <= m

\* a request entering its handler; fault names the statement the database fails, if any
NewRequest(op, a, p, upd, interval, name_ok, fault) ==
    [op |-> op, album_id |-> a, photo_id |-> p, upd |-> upd, interval |-> interval,
     name_ok |-> name_ok, fault |-> fault, pc |-> "start", status |-> 0, msg |-> "",
     settings |-> DefaultSettings, photos |-> <<>>, max_position |-> -1, photo |-> 0,
     interval_out |-> <<0, 0>>]

\* the handler moves on to its next statement
Goto(d, r, pc_) == [db |-> d, req |-> [r EXCEPT !.pc = pc_]]

\* the handler returns: APIResult::Ok is 200, NotFound 404, InternalError 500
Return(d, r, status, msg) ==
    [db |-> d, req |-> [r EXCEPT !.pc = "done", !.status = status, !.msg = msg]]

\* a get_next_photo that serves the photo after the stored index
get_next_photo_skip(d, r) ==
    CASE r.pc = "start" -> Goto(d, [r EXCEPT !.settings = d.settings], "photos")
      [] r.pc = "photos" ->
           LET photos == RotationSet(d, r.settings)
           IN  IF photos = <<>> THEN Return(d, r, 404, "No photos available")
               ELSE Goto(d, [r EXCEPT !.photos = photos], "advance")
      [] OTHER ->
           LET index == r.settings.current_photo_index % Len(r.photos)
               next_index == (index + 1) % Len(r.photos)
           IN  Return([d EXCEPT !.settings.current_photo_index = next_index],
                      [r EXCEPT !.photo = r.photos[next_index + 1],
                                !.interval_out = AsU32(r.settings.interval_seconds)],
                      200, "")

\* get_next_photo, one statement at a time
get_next_photo(d, r) ==
    CASE r.pc = "start" -> Goto(d, [r EXCEPT !.settings = d.settings], "photos")
      [] r.pc = "photos" ->
           LET photos == RotationSet(d, r.settings)
           IN  IF photos = <<>> THEN Return(d, r, 404, "No photos available")
               ELSE Goto(d, [r EXCEPT !.photos = photos], "advance")
      [] OTHER ->
           LET index == r.settings.current_photo_index % Len(r.photos)
               next_index == (index + 1) % Len(r.photos)
           IN  Return([d EXCEPT !.settings.current_photo_index = next_index],
                      [r EXCEPT !.photo = r.photos[index + 1],
                                !.interval_out = AsU32(r.settings.interval_seconds)],
                      200, "")

\* a delete_photo that leaves the album memberships of the photo
delete_photo_only(d, r) ==
    CASE r.pc = "start" ->
           IF r.photo_id \in d.photo THEN Goto(d, r, "delete")
           ELSE Return(d, r, 404, "Photo not found")
      [] OTHER -> Return([d EXCEPT !.photo = @ \ {r.photo_id}], r, 200, "")

\* delete_photo
delete_photo(d, r) ==
    CASE r.pc = "start" ->
           IF r.photo_id \in d.photo THEN Goto(d, r, "assoc")
           ELSE Return(d, r, 404, "Photo not found")
      [] r.pc = "assoc" ->
           Goto([d EXCEPT !.album_photo = {x \in @ : x.photo_id # r.photo_id}], r, "delete")
      [] OTHER -> Return([d EXCEPT !.photo = @ \ {r.photo_id}], r, 200, "")

\* create_album
create_album(d, r) ==
    IF ~r.name_ok THEN Return(d, r, 500, "Album name cannot be empty")
    ELSE Return([d EXCEPT !.album = @ \cup {NextId(d.album)}],
                [r EXCEPT !.album_id = NextId(d.album)], 200, "")

\* delete_album
delete_album(d, r) ==
    CASE r.pc = "start" ->
           IF r.album_id \in d.album THEN Goto(d, r, "assoc")
           ELSE Return(d, r, 404, "Album not found")
      [] r.pc = "assoc" ->
           Goto([d EXCEPT !.album_photo = {x \in @ : x.album_id # r.album_id}], r, "clear")
      [] r.pc = "clear" ->
           IF d.settings.current_album_id = Some(r.album_id)
           THEN Goto([d EXCEPT !.settings.current_album_id = None,
                               !.settings.current_photo_index = 0], r, "delete")
           ELSE Goto(d, r, "delete")
      [] OTHER -> Return([d EXCEPT !.album = @ \ {r.album_id}], r, 200, "")

\* an add_photo_to_album that does not look for the photo in the album first
add_photo_to_album_again(d, r) ==
    CASE r.pc = "start" ->
           IF r.album_id \in d.album THEN Goto(d, r, "photo")
           ELSE Return(d, r, 404, "Album not found")
      [] r.pc = "photo" ->
           IF r.photo_id \in d.photo THEN Goto(d, r, "max")
           ELSE Return(d, r, 404, "Photo not found")
      [] r.pc = "max" ->
           Goto(d, [r EXCEPT !.max_position = MaxPositionOf(d, r.album_id)], "insert")
      [] OTHER ->
           Return([d EXCEPT !.album_photo = @ \cup
                      {[album_id |-> r.album_id, photo_id |-> r.photo_id,
                        position |-> r.max_position + 1]}],
                  r, 200, "")

\* add_photo_to_album
add_photo_to_album(d, r) ==
    CASE r.pc = "start" ->
           IF r.album_id \in d.album THEN Goto(d, r, "photo")
           ELSE Return(d, r, 404, "Album not found")
      [] r.pc = "photo" ->
           IF r.photo_id \in d.photo THEN Goto(d, r, "already")
           ELSE Return(d, r, 404, "Photo not found")
      [] r.pc = "already" ->
           IF \E x \in d.album_photo : x.album_id = r.album_id /\ x.photo_id = r.photo_id
           THEN Return(d, r, 200, "")
           ELSE Goto(d, r, "max")
      [] r.pc = "max" ->
           Goto(d, [r EXCEPT !.max_position = MaxPositionOf(d, r.album_id)], "insert")
      [] OTHER ->
           Return([d EXCEPT !.album_photo = @ \cup
                      {[album_id |-> r.album_id, photo_id |-> r.photo_id,
                        position |-> r.max_position + 1]}],
                  r, 200, "")

\* remove_photo_from_album
remove_photo_from_album(d, r) ==
    CASE r.pc = "start" ->
           IF r.album_id \in d.album THEN Goto(d, r, "delete")
           ELSE Return(d, r, 404, "Album not found")
      [] OTHER ->
           Return([d EXCEPT !.album_photo =
                      {x \in @ : ~(x.album_id = r.album_id /\ x.photo_id = r.photo_id)}],
                  r, 200, "")

\* get_settings
get_settings(d, r) ==
    Return(d, [r EXCEPT !.settings = d.settings,
                        !.interval_out = AsU32(d.settings.interval_seconds)], 200, "")

\* an update_settings that accepts an interval of 0
update_settings_from_zero(d, r) ==
    CASE r.pc = "start" ->
           IF r.upd = "set"
           THEN IF r.album_id \in d.album THEN Goto(d, r, "set")
                ELSE Return(d, r, 404, "Album not found")
           ELSE IF r.upd = "remove" THEN Goto(d, r, "clear")
           ELSE Goto(d, r, "interval")
      [] r.pc = "set" ->
           Goto([d EXCEPT !.settings.current_album_id = Some(r.album_id),
                          !.settings.current_photo_index = 0], r, "interval")
      [] r.pc = "clear" ->
           Goto([d EXCEPT !.settings.current_album_id = None,
                          !.settings.current_photo_index = 0], r, "interval")
      [] OTHER ->
           IF r.interval = None THEN Return(d, r, 200, "")
           ELSE IF r.interval[1] < 0
           THEN Return(d, r, 500, "Interval must be at least 1 second")
           ELSE Return([d EXCEPT !.settings.interval_seconds = r.interval[1]], r, 200, "")

\* update_settings: the album part, then the interval part
update_settings(d, r) ==
    CASE r.pc = "start" ->
           IF r.upd = "set"
           THEN IF r.album_id \in d.album THEN Goto(d, r, "set")
                ELSE Return(d, r, 404, "Album not found")
           ELSE IF r.upd = "remove" THEN Goto(d, r, "clear")
           ELSE Goto(d, r, "interval")
      [] r.pc = "set" ->
           IF r.fault = "set" THEN Return(d, r, 500, "Failed to update settings")
           ELSE Goto([d EXCEPT !.settings.current_album_id = Some(r.album_id),
                               !.settings.current_photo_index = 0], r, "interval")
      [] r.pc = "clear" ->
           IF r.fault = "clear" THEN Return(d, r, 500, "Failed to update settings")
           ELSE Goto([d EXCEPT !.settings.current_album_id = None,
                               !.settings.current_photo_index = 0], r, "interval")
      [] OTHER ->
           IF r.interval = None THEN Return(d, r, 200, "")
           ELSE IF r.interval[1] < 1
           THEN Return(d, r, 500, "Interval must be at least 1 second")
           ELSE IF r.fault = "interval" THEN Return(d, r, 500, "Failed to update settings")
           ELSE Return([d EXCEPT !.settings.interval_seconds = r.interval[1]], r, 200, "")

\* upload_photo / import_photo: the INSERT INTO photo
insert_photo(d, r) ==
    Return([d EXCEPT !.photo = @ \cup {NextId(d.photo)}],
           [r EXCEPT !.photo_id = NextId(d.photo)], 200, "")

\* the next statement of the handler of request r on database d
Step(d, r) ==
    CASE r.op = "get_next_photo" -> get_next_photo(d, r)
      [] r.op = "delete_photo" -> delete_photo(d, r)
      [] r.op = "create_album" -> create_album(d, r)
      [] r.op = "delete_album" -> delete_album(d, r)
      [] r.op = "add_photo_to_album" -> add_photo_to_album(d, r)
      [] r.op = "remove_photo_from_album" -> remove_photo_from_album(d, r)
      [] r.op = "get_settings" -> get_settings(d, r)
      [] r.op = "update_settings" -> update_settings(d, r)
      [] OTHER -> insert_photo(d, r)

RECURSIVE Run(_, _)
\* a handler run from its first statement to its return with no other request in between
Run(d, r) == IF r.pc = "done" THEN [db |-> d, req |-> r] ELSE Run(Step(d, r).db, Step(d, r).req)

\* what the caller sees of a completed request: the status and the body of the response
Reply(r) ==
    [op |-> r.op, status |-> r.status, msg |-> r.msg, photo |-> r.photo,
     interval_out |-> r.interval_out]

\* the tables stay within the bounds of the model
InBounds(d) ==
    /\ d.photo \subseteq 1..MaxPhotos
    /\ d.album \subseteq 1..MaxAlbums
    /\ \A x \in d.album_photo : x.position <= MaxPhotos

\* one request served from start to return
Serve(r) ==
    LET out == Run(db, r)
    IN  /\ InBounds(out.db)
        /\ db' = out.db
        /\ last' = Reply(out.req)
        /\ UNCHANGED <<reqs, served, view>>

\* a path or body parameter that carries no value in this request
NoArg == 0
IntervalInputs == {-1, 0, 1}

GetNextPhoto ==
    /\ Serve(NewRequest("get_next_photo", NoArg, NoArg, "none", None, TRUE, "none"))
    /\ UNCHANGED macroVars

GetSettings ==
    /\ Serve(NewRequest("get_settings", NoArg, NoArg, "none", None, TRUE, "none"))
    /\ UNCHANGED macroVars

UploadPhoto ==
    /\ Serve(NewRequest("insert_photo", NoArg, NoArg, "none", None, TRUE, "none"))
    /\ UNCHANGED macroVars

DeletePhoto ==
    /\ \E p \in 1..MaxPhotos :
          Serve(NewRequest("delete_photo", NoArg, p, "none", None, TRUE, "none"))
    /\ UNCHANGED macroVars

CreateAlbum ==
    /\ \E ok \in BOOLEAN :
          Serve(NewRequest("create_album", NoArg, NoArg, "none", None, ok, "none"))
    /\ UNCHANGED macroVars

DeleteAlbum ==
    /\ \E a \in 1..MaxAlbums :
          Serve(NewRequest("delete_album", a, NoArg, "none", None, TRUE, "none"))
    /\ UNCHANGED macroVars

AddPhotoToAlbum ==
    /\ \E a \in 1..MaxAlbums : \E p \in 1..MaxPhotos :
          Serve(NewRequest("add_photo_to_album", a, p, "none", None, TRUE, "none"))
    /\ UNCHANGED macroVars

RemovePhotoFromAlbum ==
    /\ \E a \in 1..MaxAlbums : \E p \in 1..MaxPhotos :
          Serve(NewRequest("remove_photo_from_album", a, p, "none", None, TRUE, "none"))
    /\ UNCHANGED macroVars

\* the requests update_settings may receive, with the statement that fails, if any
UpdateRequests ==
    {NewRequest("update_settings", a, NoArg, u, i, TRUE, f) :
        a \in 1..MaxAlbums, u \in {"none", "set", "remove"},
        i \in {None} \cup {Some(n) : n \in IntervalInputs},
        f \in {"none", "set", "clear", "interval"}}

UpdateSettings ==
    /\ \E r \in UpdateRequests : Serve(r)
    /\ UNCHANGED macroVars

AppInit ==
    /\ items = <<>>
    /\ Boot
    /\ AppBoot

\* the library and the albums: photos come and go, albums and memberships are edited
AlbumNext ==
    \/ UploadPhoto
    \/ DeletePhoto
    \/ CreateAlbum
    \/ DeleteAlbum
    \/ AddPhotoToAlbum
    \/ RemovePhotoFromAlbum

AlbumSpec == AppInit /\ [][AlbumNext]_vars

\* the settings: albums are created, selected and deleted, the interval is set,
\* the viewer asks for the settings and for the next photo of the library
SettingsNext ==
    \/ UploadPhoto
    \/ CreateAlbum
    \/ DeleteAlbum
    \/ UpdateSettings
    \/ GetSettings
    \/ GetNextPhoto

SettingsSpec == AppInit /\ [][SettingsNext]_vars

----------------------------------------------------------------------------
(* Requests in flight: each handler is a sequence of statements awaited on the pool *)

MaxInFlight == 2
MaxRequests == 3
MaxTrigger == 3
MaxTimers == 2

\* a library of n photos, with or without an album that holds some of them in
\* some order, selected or not, and a stored photo index
SeededDbs ==
    {[photo |-> 1..n,
      album |-> IF c.album THEN {1} ELSE {},
      album_photo |-> IF c.album
                      THEN {[album_id |-> 1, photo_id |-> c.members[i], position |-> i - 1] :
                               i \in DOMAIN c.members}
                      ELSE {},
      settings |-> [current_album_id |-> IF c.album /\ c.selected THEN Some(1) ELSE None,
                    current_photo_index |-> c.index,
                    interval_seconds |-> DefaultInterval]] :
        n \in 0..MaxPhotos,
        c \in [album : BOOLEAN, selected : BOOLEAN, index : 0..(MaxPhotos - 1),
               members : InjSeqsUpTo(1..MaxPhotos, MaxPhotos)]}

RotationInit ==
    /\ items = <<>>
    /\ Boot
    /\ db \in {d \in SeededDbs : \A x \in d.album_photo : x.photo_id \in d.photo}
    /\ last = NoLast
    /\ reqs = <<>>
    /\ served = [from |-> db.settings.current_photo_index, replies |-> <<>>]
    /\ view = Unmounted

\* the requests begun so far
Begun == Len(served.replies) + Len(reqs)

\* a request enters its handler
Begin(r) ==
    /\ reqs' = Append(reqs, r)
    /\ UNCHANGED <<db, last, served, view>>

\* the handler of the i-th request in flight runs its next statement
Statement(i) ==
    /\ reqs[i].pc # "done"
    /\ InBounds(Step(db, reqs[i]).db)
    /\ db' = Step(db, reqs[i]).db
    /\ reqs' = [reqs EXCEPT ![i] = Step(db, reqs[i]).req]
    /\ UNCHANGED <<last, served, view>>

\* the response of the i-th request in flight goes out
Respond(i) ==
    /\ reqs[i].pc = "done"
    /\ last' = Reply(reqs[i])
    /\ served' = [served EXCEPT !.replies = Append(@, Reply(reqs[i]))]
    /\ reqs' = [j \in 1..(Len(reqs) - 1) |-> IF j < i THEN reqs[j] ELSE reqs[j + 1]]
    /\ UNCHANGED <<db, view>>

NextPhotoRequest == NewRequest("get_next_photo", NoArg, NoArg, "none", None, TRUE, "none")

\* the viewer asks for the next photo once the previous answer has arrived
BeginNextPhotoAfter ==
    /\ reqs = <<>>
    /\ Begun <= MaxPhotos
    /\ Begin(NextPhotoRequest)
    /\ UNCHANGED macroVars

\* a viewer asks for the next photo while other requests are in flight
BeginNextPhoto ==
    /\ Len(reqs) < MaxInFlight
    /\ Begun <= MaxPhotos
    /\ Begin(NextPhotoRequest)
    /\ UNCHANGED macroVars

RunStatement ==
    /\ \E i \in DOMAIN reqs : Statement(i)
    /\ UNCHANGED macroVars

SendResponse ==
    /\ \E i \in DOMAIN reqs : Respond(i)
    /\ UNCHANGED macroVars

\* one viewer: get_next_photo calls one after the other
RotationNext ==
    \/ BeginNextPhotoAfter
    \/ RunStatement
    \/ SendResponse

RotationSpec == RotationInit /\ [][RotationNext]_vars

\* several viewers: get_next_photo calls overlap
RaceNext ==
    \/ BeginNextPhoto
    \/ RunStatement
    \/ SendResponse

RaceSpec == RotationInit /\ [][RaceNext]_vars

\* the admin page: settings and albums are edited from several tabs at once
SettingsRaceInit ==
    /\ items = <<>>
    /\ Boot
    /\ db \in {EmptyDb, [EmptyDb EXCEPT !.album = {1}]}
    /\ last = NoLast
    /\ reqs = <<>>
    /\ served = NoServed
    /\ view = Unmounted

\* room for one more request
MayBegin == Len(reqs) < MaxInFlight /\ Begun < MaxRequests

BeginUpdateSettings ==
    /\ MayBegin
    /\ \E r \in {x \in UpdateRequests :
                    x.upd # "none" /\ x.interval = None /\ x.fault = "none"} : Begin(r)
    /\ UNCHANGED macroVars

BeginDeleteAlbum ==
    /\ MayBegin
    /\ \E a \in 1..MaxAlbums :
          Begin(NewRequest("delete_album", a, NoArg, "none", None, TRUE, "none"))
    /\ UNCHANGED macroVars

BeginCreateAlbum ==
    /\ MayBegin
    /\ Begin(NewRequest("create_album", NoArg, NoArg, "none", None, TRUE, "none"))
    /\ UNCHANGED macroVars

SettingsRaceNext ==
    \/ BeginUpdateSettings
    \/ BeginDeleteAlbum
    \/ BeginCreateAlbum
    \/ RunStatement
    \/ SendResponse

SettingsRaceSpec == SettingsRaceInit /\ [][SettingsRaceNext]_vars

----------------------------------------------------------------------------
(* The viewer: App() of frontend-viewer, its fetch effect and its timers *)

RetrySeconds == 30
OverlaySeconds == 5

\* the intervals the server may serve with a photo
IntervalsServed == {1, DefaultInterval}

\* the answers of get_next: a photo and the interval to wait
NextAnswers == [photo : 1..MaxPhotos, interval : IntervalsServed]

\* n.wrapping_add(1), the u32 of the trigger narrowed to the values 0..MaxTrigger
wrapping_add(n) == (n + 1) % (MaxTrigger + 1)

\* s without its i-th element
RemoveAt(s, i) == [j \in 1..(Len(s) - 1) |-> IF j < i THEN s[j] ELSE s[j + 1]]

\* the effect runs: it reads the trigger and spawns the fetch
run_effect(v) == [v EXCEPT !.effect = FALSE, !.fetching = @ + 1]

\* the Ok arm: the photo is shown with its overlay, the overlay timer and the
\* timer of the next fetch are set
on_ok(v, next) ==
    [v EXCEPT !.fetching = @ - 1,
              !.current = Some(next),
              !.overlay_visible = TRUE,
              !.overlay_timers = Append(@, OverlaySeconds),
              !.fetch_timers = Append(@, next.interval)]

\* an Err arm that only logs the error
on_err_logged(v) == [v EXCEPT !.fetching = @ - 1]

\* the Err arm: the error is logged and the fetch is retried after 30 seconds
on_err(v) == [v EXCEPT !.fetching = @ - 1, !.fetch_timers = Append(@, RetrySeconds)]

\* a fetch timer fires: the trigger is updated, which schedules the effect
on_fetch_timer(v, i) ==
    [v EXCEPT !.fetch_timers = RemoveAt(@, i),
              !.fetch_trigger = wrapping_add(@),
              !.effect = TRUE]

\* an overlay timer fires: the overlay is hidden
on_overlay_timer(v, i) ==
    [v EXCEPT !.overlay_timers = RemoveAt(@, i), !.overlay_visible = FALSE]

viewerRest == <<db, last, reqs, served>>

\* App() is mounted: Effect::new schedules the first run of the effect
Mount ==
    /\ ~view.mounted
    /\ view' = [view EXCEPT !.mounted = TRUE, !.effect = TRUE]
    /\ UNCHANGED <<viewerRest, macroVars>>

RunEffect ==
    /\ view.effect
    /\ view' = run_effect(view)
    /\ UNCHANGED <<viewerRest, macroVars>>

FetchOk ==
    /\ view.fetching > 0
    /\ Len(view.overlay_timers) < MaxTimers
    /\ \E next \in NextAnswers : view' = on_ok(view, next)
    /\ UNCHANGED <<viewerRest, macroVars>>

FetchErr ==
    /\ view.fetching > 0
    /\ view' = on_err(view)
    /\ UNCHANGED <<viewerRest, macroVars>>

FetchTimerFires ==
    /\ \E i \in DOMAIN view.fetch_timers : view' = on_fetch_timer(view, i)
    /\ UNCHANGED <<viewerRest, macroVars>>

OverlayTimerFires ==
    /\ \E i \in DOMAIN view.overlay_timers : view' = on_overlay_timer(view, i)
    /\ UNCHANGED <<viewerRest, macroVars>>

ViewerNext ==
    \/ Mount
    \/ RunEffect
    \/ FetchOk
    \/ FetchErr
    \/ FetchTimerFires
    \/ OverlayTimerFires

\* the browser runs a due timer and a scheduled effect; a fetch may hang
ViewerSpec ==
    /\ AppInit
    /\ [][ViewerNext]_vars
    /\ WF_vars(Mount)
    /\ WF_vars(RunEffect)
    /\ WF_vars(FetchTimerFires)
    /\ WF_vars(OverlayTimerFires)

----------------------------------------------------------------------------
(* Properties of the generated client and server *)

\* the client call in progress, its client method and its MethodSpec parameters
TheCall == call[1]
CalledMethod == client[TheCall.method]
CalledParams == handlers[TheCall.method].params

\* the positions of the {name} placeholders in a template, left to right
PlaceholderIdx(path) == SortedSeq({i \in 1..Len(path) : ~path[i].lit})

(* C1: the request a generated client method builds is dispatched to the handler of
   the same method, and the handler invokes the service method with every parameter
   bound to the value the caller supplied for the parameter of that name. *)
C1_RoundTrip ==
    rt \in {"invoked", "responded"} =>
        /\ invocation # None
        /\ invocation[1].fn_name = TheCall.fn_name
        /\ Len(invocation[1].args) = Len(CalledParams)
        /\ \A j \in 1..Len(CalledParams) : invocation[1].args[j] = TheCall.args[j]

(* C2 as stated: with k Path-role parameters the client fills the placeholders by
   position, the i-th placeholder with the i-th Path-role parameter in declaration
   order, independently of the placeholder names. *)
C2_PositionalFill ==
    rt # "idle" =>
        LET pathIdx == SelectIdx(CalledParams, IsPath)
            phIdx == PlaceholderIdx(CalledMethod.path_str)
        IN  pathIdx # <<>> =>
                /\ Len(phIdx) = Len(pathIdx)
                /\ \A i \in 1..Len(pathIdx) :
                      request[1].path[phIdx[i]] = Display(TheCall.args[pathIdx[i]])

(* C2 as amended: with k >= 1 Path-role parameters the client fills every
   placeholder {n} with the value supplied for the Path-role parameter named n,
   whatever the declaration order, and copies the literal segments; the text of a
   filled placeholder reads back as that value. *)
C2_FillByName ==
    rt # "idle" =>
        LET tpl == CalledMethod.path_str
        IN  SelectIdx(CalledParams, IsPath) # <<>> =>
                /\ Len(request[1].path) = Len(tpl)
                /\ \A i \in 1..Len(tpl) :
                      IF tpl[i].lit THEN request[1].path[i] = tpl[i].text
                      ELSE \E k \in 1..Len(CalledParams) :
                              /\ CalledParams[k].name = tpl[i].text
                              /\ CalledParams[k].kind = "Path"
                              /\ FromStr(request[1].path[i]) = Some(TheCall.args[k])

\* a call with two Path-role parameters whose placeholders are in the other order
C2_Witness ==
    /\ rt = "sent"
    /\ Len(CalledMethod.path_format_args) = 2
    /\ PlaceholderNames(CalledMethod.path_str)
         = <<CalledMethod.path_format_args[2], CalledMethod.path_format_args[1]>>
    /\ \E j, k \in 1..Len(CalledParams) :
          /\ j < k
          /\ CalledParams[j].kind = "Path"
          /\ CalledParams[k].kind = "Path"
          /\ TheCall.args[j] # TheCall.args[k]
          /\ request[1].path = <<"users", Display(TheCall.args[k]), "posts",
                                 Display(TheCall.args[j])>>

(* C3: the generated handler passes its extracted values to the service method in
   the method's declared parameter order, for every mix of roles. *)
C3_DeclaredCallOrder ==
    Builds =>
        \A i \in 1..Len(axum_handlers) :
            axum_handlers[i].call_args = NamesOf(handlers[i].params)

\* how many elements of a sequence satisfy Test
Count(s, Test(_)) == Cardinality({i \in 1..Len(s) : Test(s[i])})

\* the place of an extractor kind in the order State, Path, Query, Body
ExtractorRank(ex) ==
    CASE ex = "State" -> 1 [] ex = "Path" -> 2 [] ex = "Query" -> 3 [] OTHER -> 4

(* C4: the extractors of a generated handler are the state extractor, then at most
   one Path extractor (a single value or a tuple in declaration order), then one
   Query extractor per Query-role parameter, then the Body extractor; no extractor
   follows the Body extractor. *)
C4_ExtractorOrder ==
    \A i \in 1..Len(axum_handlers) :
        LET ex == axum_handlers[i].extractor_params
            ps == handlers[i].params
            IsKind(kind) == LET T(e) == e.ex = kind IN Filter(ex, T)
        IN  /\ ex[1].ex = "State"
            /\ Len(IsKind("State")) = 1
            /\ Len(IsKind("Path")) = (IF Count(ps, IsPath) = 0 THEN 0 ELSE 1)
            /\ \A e \in Range(IsKind("Path")) : e.names = NamesOf(Filter(ps, IsPath))
            /\ [k \in 1..Len(IsKind("Query")) |-> IsKind("Query")[k].names[1]]
                  = NamesOf(Filter(ps, IsQuery))
            /\ \A j, k \in 1..Len(ex) :
                  j < k => ExtractorRank(ex[j].ex) <= ExtractorRank(ex[k].ex)
            /\ Count(ps, IsBody) > 0 => ex[Len(ex)].ex = "Json"
            /\ \A j \in 1..Len(ex) : ex[j].ex = "Json" => j = Len(ex)

(* C5: Ok(v) becomes status 200 with v serialized as the JSON body, NotFound(m)
   status 404 with body {"error": m}, InternalError(m) status 500 with body
   {"error": m}; no other status code comes out of the conversion. *)
C5_IntoResponse ==
    result # None =>
        LET r == result[1]
            resp == response[1]
        IN  /\ r.tag = "Ok" => resp.status = 200 /\ from_json(resp.body) = Some(r.val)
            /\ r.tag = "NotFound" =>
                  resp.status = 404 /\ resp.body = "{\"error\":\"" \o r.msg \o "\"}"
            /\ r.tag = "InternalError" =>
                  resp.status = 500 /\ resp.body = "{\"error\":\"" \o r.msg \o "\"}"
            /\ resp.status \in {200, 404, 500}

\* a handler returned NotFound and the response is the 404 of the example
C5_Witness ==
    /\ result # None
    /\ result[1] = NotFound("Photo 5 not found")
    /\ response[1] = [status |-> 404, body |-> "{\"error\":\"Photo 5 not found\"}"]

\* the #[api_handler] markers of an item
Markers(item) == LET IsApi(a) == a.name = "api_handler" IN Filter(item.attrs, IsApi)

\* an item is a method whose marker names a method token outside the five
HasUnsupportedToken(item) ==
    /\ item.isFn
    /\ Markers(item) # <<>>
    /\ Markers(item)[1].meta.method # None
    /\ to_uppercase(Markers(item)[1].meta.method[1]) \notin {GET, POST, PUT, DELETE, PATCH}

(* C6: when a method of the service carries a method token that, upper-cased, is
   outside GET, POST, PUT, DELETE, PATCH, the expansion fails and emits no handler,
   no route table and no client for any method of the service. *)
C6_UnsupportedMethodFails ==
    (\E i \in 1..Len(items) : HasUnsupportedToken(items[i])) =>
        /\ expanded = None
        /\ pc \in {"parse", "handlers", "router", "failed"}
        /\ router_impl = <<>>
        /\ client = <<>>
        /\ rt = "idle"

\* a service of a supported and an unsupported method: the router panicked
C6_Witness ==
    /\ pc = "failed"
    /\ diag.msg = "Unsupported HTTP method"
    /\ Len(items) = 2
    /\ \E h \in Range(handlers) : h.method \in {GET, POST, PUT, DELETE, PATCH}
    /\ expanded = None

\* the parameters of a method that are not the receiver and carry no role marker
Unmarked(item) ==
    {j \in 1..Len(item.inputs) :
        item.inputs[j].typed /\ take_param_attr(item.inputs[j].attrs) = None}

(* C7: every parameter of an annotated method that is not the receiver and carries
   none of body / path / query makes the expansion fail with a diagnostic naming the
   method and the parameter, whatever its position and its pattern. *)
C7_UnmarkedParamFails ==
    \A i \in 1..Len(items) :
        (items[i].isFn /\ Markers(items[i]) # <<>> /\ Unmarked(items[i]) # {} /\ idx > i) =>
            /\ pc = "failed"
            /\ diag.fn = items[i].ident
            /\ \E j \in Unmarked(items[i]) : diag.param = items[i].inputs[j].name

(* C8: every MethodSpec from which a handler and a client method are emitted has at
   most one Body-role parameter. *)
C8_AtMostOneBody ==
    expanded # None => \A h \in Range(handlers) : Count(h.params, IsBody) <= 1

\* an item with the method token of its marker upper-cased
UpperCased(item) ==
    [item EXCEPT !.attrs =
        [k \in 1..Len(item.attrs) |->
            IF item.attrs[k].meta.method = None THEN item.attrs[k]
            ELSE [item.attrs[k] EXCEPT
                    !.meta.method = Some(to_uppercase(item.attrs[k].meta.method[1]))]]]

\* the MethodSpecs parse_handler yields for a sequence of items
ParsedOf(its) ==
    LET rs == [i \in 1..Len(its) |-> IF its[i].isFn THEN parse_handler(its[i])
                                      ELSE [tag |-> "None", handler |-> NoHandler, diag |-> NoDiag]]
        IsSome(r) == r.tag = "Some"
        some == Filter(rs, IsSome)
    IN  [k \in 1..Len(some) |-> some[k].handler]

(* C9: the method token is case-folded before validation: a service declared with
   tokens t yields the same MethodSpecs, the same route registrations and the same
   client request methods as the service declared with the upper-cased tokens. *)
C9_CaseFold ==
    LET upper == [i \in 1..Len(items) |-> UpperCased(items[i])]
        parsed == ParsedOf(upper)
        routed == generate_router(parsed)
        generated == generate_client(parsed)
    IN  upper # items =>
          /\ idx <= Len(items) => handlers = ParsedOf(SubSeq(upper, 1, idx - 1))
          /\ idx = Len(items) + 1 => handlers = parsed
          /\ pc \in {"client", "emit", "emitted"} => routed.ok /\ router_impl = routed.routes
          /\ pc \in {"emit", "emitted"} => client = generated
          /\ rt # "idle" => request[1].method = generated[TheCall.method].method_ident

\* a request sent by the client of a method declared with a token that is not upper case
C9_Witness ==
    /\ rt = "sent"
    /\ Markers(items[TheCall.method])[1].meta.method[1] \in {<<"g", "e", "t">>, <<"G", "e", "t">>}
    /\ handlers[TheCall.method].method = GET
    /\ router_impl[TheCall.method].method_fn = <<"g", "e", "t">>
    /\ request[1].method = <<"g", "e", "t">>

\* an item is a method whose marker lacks the method key or the path key
HasIncompleteMarker(item) ==
    /\ item.isFn
    /\ Markers(item) # <<>>
    /\ (Markers(item)[1].meta.method = None \/ Markers(item)[1].meta.path = None)

(* C10: a method whose api_handler marker lacks the method key or the path key makes
   the expansion fail; nothing is emitted and the marker is never completed with a
   default method or path. *)
C10_IncompleteMarkerFails ==
    \A i \in 1..Len(items) :
        HasIncompleteMarker(items[i]) =>
            /\ expanded = None
            /\ pc \in {"parse", "failed"}
            /\ \A h \in Range(handlers) : h.fn_name # items[i].ident
            /\ idx > i => pc = "failed"

\* the second method's marker is incomplete: the first was parsed, nothing is emitted
C10_Witness ==
    /\ pc = "failed"
    /\ diag.msg = "Failed to parse #[api_handler] arguments"
    /\ Len(handlers) = 1
    /\ HasIncompleteMarker(items[2])
    /\ expanded = None

\* item i of the impl block is a method carrying the api_handler marker
Annotated(i) == items[i].isFn /\ Markers(items[i]) # <<>>

(* C11: an annotated method that declares no return type makes the expansion fail
   before any handler, route or client method is generated; nothing is emitted. *)
C11_MissingReturnTypeFails ==
    \A i \in 1..Len(items) :
        (Annotated(i) /\ items[i].output = None) =>
            /\ idx <= i
            /\ pc \in {"parse", "failed"}
            /\ \A h \in Range(handlers) : h.fn_name # items[i].ident
            /\ axum_handlers = <<>> /\ router_impl = <<>> /\ client = <<>>
            /\ expanded = None

\* the second method has a complete marker and no return type: the expansion panicked
C11_Witness ==
    /\ pc = "failed"
    /\ Len(items) = 2
    /\ diag = Diag("must have a return type", items[2].ident, "")
    /\ Len(handlers) = 1
    /\ Annotated(2) /\ items[2].output = None
    /\ expanded = None

\* the identifiers of the annotated methods among the first n items, in declaration order
AnnotatedNames(n) ==
    LET ix == SortedSeq({i \in 1..n : Annotated(i)})
    IN  [k \in 1..Len(ix) |-> items[ix[k]].ident]

(* C12: the ServiceSpec holds exactly the methods carrying the api_handler marker, in
   declaration order; every other item is re-emitted unchanged at its position and
   gets no route, no handler and no client method. *)
C12_ServiceSpecIsAnnotatedMethods ==
    /\ [k \in 1..Len(handlers) |-> handlers[k].fn_name] = AnnotatedNames(idx - 1)
    /\ Len(cleaned_items) = idx - 1
    /\ \A i \in 1..(idx - 1) : ~Annotated(i) => cleaned_items[i] = items[i]
    /\ expanded # None =>
          LET out == expanded[1]
              names == AnnotatedNames(Len(items))
          IN  /\ Len(out.items) = Len(items)
              /\ \A i \in 1..Len(items) : ~Annotated(i) => out.items[i] = items[i]
              /\ \A i \in 1..Len(items) : Annotated(i) => out.items[i].ident = items[i].ident
              /\ [k \in 1..Len(out.handlers) |-> out.handlers[k].fn_name] = names
              /\ [k \in 1..Len(out.client) |-> out.client[k].fn_name] = names
              /\ [k \in 1..Len(out.router) |-> out.router[k].handler]
                    = [k \in 1..Len(names) |-> "__axum_handler_" \o names[k]]

\* an unmarked method before an annotated one: one MethodSpec, both items re-emitted
C12_Witness ==
    /\ pc = "emitted"
    /\ Len(items) = 2
    /\ items[1].isFn /\ items[1].attrs = <<Attr("doc")>>
    /\ Annotated(2)
    /\ Len(handlers) = 1 /\ handlers[1].fn_name = items[2].ident
    /\ expanded[1].items[1] = items[1]
    /\ Len(expanded[1].router) = 1

\* the text of a response body is the JSON of a payload of the success type
IsJsonOf(ty, text) ==
    IF ty = UnitTy THEN text = "null" ELSE \E n \in 1..Len(DigitStr) : DigitStr[n] = text

(* C13: a client call classifies its outcome in fixed order: a failed send gives the
   Request error; otherwise a status outside 200..299 gives Api{status, body} with the
   raw response text, or the empty string when the text cannot be read, and nothing is
   deserialized; otherwise a body that does not deserialize as the success payload
   type gives the Request error; otherwise Ok(payload). One of the four is returned. *)
C13_OutcomeClassification ==
    outcome # None =>
        LET tr == transport[1]
            o == outcome[1]
            inner == CalledMethod.inner_return_type
            success == tr.status >= 200 /\ tr.status <= 299
            decodes == tr.text # None /\ IsJsonOf(inner, tr.text[1])
        IN  /\ o.tag \in {"Ok", "Request", "Api"}
            /\ tr.ok <=> response # None
            /\ tr.ok => tr.status = response[1].status
            /\ (tr.ok /\ tr.text # None) => tr.text[1] = response[1].body
            /\ ~tr.ok => o.tag = "Request" /\ o.cause = "send"
            /\ (tr.ok /\ ~success) =>
                  /\ o.tag = "Api"
                  /\ o.status = tr.status
                  /\ o.body = (IF tr.text = None THEN "" ELSE response[1].body)
            /\ (tr.ok /\ success /\ ~decodes) => o.tag = "Request" /\ o.cause = "decode"
            /\ (tr.ok /\ success /\ decodes) =>
                  o.tag = "Ok" /\ to_json(o.payload) = response[1].body

\* a 404 whose body could not be read: the Api error carries the empty string
C13_Witness ==
    /\ outcome # None
    /\ response # None
    /\ response[1] = [status |-> 404, body |-> "{\"error\":\"Photo 5 not found\"}"]
    /\ outcome[1] = ApiError(404, "")

(* C14: the client appends "?" and the encoded query string to the URL if and only if
   the method has a Query-role argument whose URL-encoding is non-empty; otherwise the
   URL is the base URL followed by the substituted path. *)
C14_QueryAppended ==
    (call # None /\ request # None) =>
        /\ request[1].query # None
              <=> \E k \in 1..Len(CalledParams) :
                     CalledParams[k].kind = "Query" /\ urlencoded(TheCall.args[k]) # <<>>
        /\ request[1].query # None => request[1].query[1] # <<>>

\* the inputs of a method that are not the receiver
DeclaredParams(item) == LET IsTyped(arg) == arg.typed IN Filter(item.inputs, IsTyped)

(* C15: each generated client method takes, after &self, one argument per declared
   parameter of the service method, in declaration order, typed T for a Path-role
   parameter and &T for a Body-role or Query-role parameter. *)
C15_ClientSignature ==
    pc = "emitted" =>
        LET ix == SortedSeq({i \in 1..Len(items) : Annotated(i)})
        IN  \A k \in 1..Len(client) :
                LET declared == DeclaredParams(items[ix[k]])
                IN  client[k].fn_params =
                        [j \in 1..Len(declared) |->
                            [name |-> declared[j].name, ty |-> declared[j].ty,
                             by_ref |-> take_param_attr(declared[j].attrs) # Some("Path")]]

(* C16: an invocation of a client method issues at most one request on the transport;
   after a transport failure or a non-success response it returns the error and issues
   no second request. *)
C16_SingleRequest ==
    /\ sent <= 1
    /\ outcome # None => sent = 1 /\ rt = "returned"
    /\ rt \in {"sent", "invoked", "responded", "answered"} => sent = 1

\* the call returned the Request error of a failed send after its only request
C16_Witness ==
    /\ rt = "returned"
    /\ outcome # None
    /\ outcome[1] = RequestError("send")
    /\ sent = 1

\* the keys of a query string
KeysOf(qs) == {qs[i][1] : i \in 1..Len(qs)}

(* C19: the Query-role struct the client URL-encodes is decoded by the server to an
   equal struct; every None field is absent from the query string and decoded as
   None, and the all-None struct is sent with no "?" at all. *)
C19_QueryRoundTrip ==
    (call # None /\ invocation # None /\ CalledMethod.query_arg # None
        /\ invocation[1].fn_name = TheCall.fn_name) =>
        LET n == CalledMethod.query_arg[1]
            v == ArgOf(CalledMethod, TheCall.args, n)
            call_args == axum_handlers[TheCall.method].call_args
            j == CHOOSE j \in 1..Len(call_args) : call_args[j] = n
            qs == IF request[1].query = None THEN <<>> ELSE request[1].query[1]
        IN  /\ invocation[1].args[j] = v
            /\ "page" \in KeysOf(qs) <=> v.page # None
            /\ "limit" \in KeysOf(qs) <=> v.limit # None
            /\ request[1].query = None <=> v = Params(None, None)

\* {page: Some(1), limit: None} reached the service method as sent
C19_Witness ==
    /\ call # None /\ invocation # None
    /\ Len(CalledParams) = 1 /\ CalledParams[1].kind = "Query"
    /\ TheCall.args = <<Params(Some(1), None)>>
    /\ request[1].query = Some(<<<<"page", "1">>>>)
    /\ invocation[1].args = <<Params(Some(1), None)>>

(* C17: with several calls in flight on one shared client instance, each with its own
   Path-role value, every call returns the response the server produced for its own
   value, under every interleaving of requests and responses. *)
C17_NoCrossTalk ==
    \A i \in 1..Len(calls) :
        calls[i].state = "returned" => calls[i].outcome = Some(OkPayload(Id(calls[i].arg)))

\* a call has returned its own response while the response of another call is still
\* on its connection and a third call has received its response and not returned
C17_Witness ==
    \E i, j, k \in 1..Len(calls) :
        /\ calls[i].state = "returned" /\ calls[i].outcome = Some(OkPayload(Id(calls[i].arg)))
        /\ calls[j].state = "sent" /\ net[calls[j].conn] # None
        /\ net[calls[j].conn][1].kind = "resp"
        /\ calls[k].state = "received"
        /\ calls[i].arg # calls[j].arg /\ calls[j].arg # calls[k].arg

\* the request in flight as a raw request of the given method and path
IsRaw(m, p) == request # None /\ request[1].method = to_lowercase(m) /\ request[1].path = p

(* C18: a request whose path matches the template of a registered route but whose
   method is registered for none of the routes on that path is answered 405; a request
   whose path matches no template is answered 404. On the test service: POST
   /users/{an id} -> 405, GET /users -> 405, GET /unknown/path -> 404. *)
C18_MethodNotAllowed ==
    (call = None /\ rt \in {"invoked", "responded"}) =>
        LET req == request[1]
            onPath == {i \in 1..Len(router_impl) : PathMatches(router_impl[i].path, req.path)}
        IN  /\ onPath = {} => response = Some(Status(404))
            /\ (onPath # {} /\ \A i \in onPath : router_impl[i].method_fn # req.method)
                  => response = Some(Status(405))
            /\ items = TestService =>
                  /\ IsRaw(POST, <<"users", "4">>) => response = Some(Status(405))
                  /\ IsRaw(GET, <<"users">>) => response = Some(Status(405))
                  /\ IsRaw(GET, <<"unknown", "path">>) => response = Some(Status(404))

\* the first generic argument of the last path segment that is a type, if any
FirstTypeArgument(ty) ==
    LET IsType(arg) == arg.kind = "type"
        typeArgs == IF ty.kind = "path" /\ ty.segs # <<>>
                    THEN Filter(ty.segs[Len(ty.segs)].args, IsType) ELSE <<>>
    IN  IF typeArgs = <<>> THEN None ELSE Some(typeArgs[1].ty[1])

(* C20: the success payload type of a client method is the first generic type argument
   of the last path segment of the declared result type, and the declared type itself
   when it has no generic type argument. *)
C20_InnerType ==
    \A k \in 1..Len(client) :
        client[k].inner_return_type =
            (IF FirstTypeArgument(handlers[k].return_type) = None
             THEN handlers[k].return_type
             ELSE FirstTypeArgument(handlers[k].return_type)[1])

(* C25: every parameter of a MethodSpec has exactly one role, the one named by the
   first body / path / query marker of its attribute list whatever other attributes
   surround it; the server handler extracts it with the extractor of that role and
   the client method passes and places it by that role; the re-emitted method keeps
   every other attribute of the parameter, in order, and none of the markers. *)
C25_OneRolePerParam ==
    LET RoleMarkers == {"body", "path", "query"}
        RoleName == [body |-> "Body", path |-> "Path", query |-> "Query"]
        ExtractorOf == [Body |-> "Json", Path |-> "Path", Query |-> "Query"]
        FirstMarker(attrs) ==
            LET ix == {j \in 1..Len(attrs) : attrs[j] \in RoleMarkers}
            IN  RoleName[attrs[CHOOSE j \in ix : \A k \in ix : j <= k]]
        Others(attrs) == SelectSeq(attrs, LAMBDA a : a \notin RoleMarkers)
    IN  \A k \in 1..Len(handlers) :
          LET h == handlers[k]
              i == CHOOSE n \in 1..Len(items) : items[n].isFn /\ items[n].ident = h.fn_name
          IN  /\ \A j \in 1..Len(h.params) :
                    LET prm == h.params[j]
                        src == CHOOSE n \in 1..Len(items[i].inputs) :
                                  items[i].inputs[n].typed /\ items[i].inputs[n].name = prm.name
                    IN  /\ prm.kind = FirstMarker(items[i].inputs[src].attrs)
                        /\ Len(axum_handlers) >= k =>
                              /\ \E e \in Range(axum_handlers[k].extractor_params) :
                                     prm.name \in Range(e.names)
                              /\ \A e \in Range(axum_handlers[k].extractor_params) :
                                     prm.name \in Range(e.names) => e.ex = ExtractorOf[prm.kind]
                        /\ Len(client) >= k =>
                              /\ client[k].fn_params[j].name = prm.name
                              /\ client[k].fn_params[j].by_ref = (prm.kind # "Path")
                              /\ prm.name \in Range(client[k].path_format_args) <=> prm.kind = "Path"
                              /\ client[k].body_arg = Some(prm.name) => prm.kind = "Body"
                              /\ client[k].query_arg = Some(prm.name) => prm.kind = "Query"
              /\ \A n \in 1..Len(items[i].inputs) :
                    /\ h.clean_method.inputs[n].attrs = Others(items[i].inputs[n].attrs)
                    /\ expanded # None =>
                          expanded[1].items[i].inputs[n].attrs = Others(items[i].inputs[n].attrs)

\* an emitted method with parameters marked #[doc] #[query] and #[path] #[body]
C25_Witness ==
    /\ pc = "emitted"
    /\ Len(handlers) = 1 /\ Len(handlers[1].params) = 2
    /\ \E n \in 1..Len(items[1].inputs) : items[1].inputs[n].attrs = <<"doc", "query">>
    /\ \E n \in 1..Len(items[1].inputs) : items[1].inputs[n].attrs = <<"path", "body">>
    /\ \E j \in 1..2 : handlers[1].params[j].kind = "Path"
    /\ \E n \in 1..Len(items[1].inputs) : expanded[1].items[1].inputs[n].attrs = <<"doc">>

----------------------------------------------------------------------------
(* Properties of the photo frame server *)

\* the rows of album a
Memberships(d, a) == {x \in d.album_photo : x.album_id = a}

AddRequest(a, p) == NewRequest("add_photo_to_album", a, p, "none", None, TRUE, "none")
DeletePhotoRequest(p) == NewRequest("delete_photo", NoArg, p, "none", None, TRUE, "none")

\* C23: add_photo_to_album(a, p) on an existing album and an existing photo answers
\* Ok, and a second call right after it answers Ok again and leaves the rows of
\* the album, hence its photo list and positions, as the first call left them,
\* with p in the album exactly once
C23_AddIdempotent ==
    \A a \in db.album : \A p \in db.photo :
        LET first == Run(db, AddRequest(a, p))
            second == Run(first.db, AddRequest(a, p))
        IN  /\ first.req.status = 200
            /\ second.req.status = 200
            /\ second.db = first.db
            /\ AlbumPhotos(second.db, a) = AlbumPhotos(first.db, a)
            /\ Cardinality({x \in Memberships(second.db, a) : x.photo_id = p}) = 1
            /\ Cardinality({i \in DOMAIN AlbumPhotos(second.db, a) :
                               AlbumPhotos(second.db, a)[i] = p}) = 1

\* an add has just answered Ok on an album that holds two photos
C23_Witness ==
    /\ last.op = "add_photo_to_album"
    /\ last.status = 200
    /\ \E a \in db.album : Len(AlbumPhotos(db, a)) = 2

\* C24: every membership refers to an existing album and an existing photo; a
\* successful delete_photo(p) leaves p in no album, and add_photo_to_album on a
\* missing album or a missing photo answers 404 and adds nothing
C24_MembershipsRefer ==
    /\ \A x \in db.album_photo : x.album_id \in db.album /\ x.photo_id \in db.photo
    /\ \A p \in 1..MaxPhotos :
          LET out == Run(db, DeletePhotoRequest(p))
          IN  /\ out.req.status = 200 <=> p \in db.photo
              /\ out.req.status = 200 =>
                    /\ \A x \in out.db.album_photo : x.photo_id # p
                    /\ \A a \in out.db.album : \A i \in DOMAIN AlbumPhotos(out.db, a) :
                          AlbumPhotos(out.db, a)[i] # p
    /\ \A a \in 1..MaxAlbums : \A p \in 1..MaxPhotos :
          (a \notin db.album \/ p \notin db.photo) =>
              LET out == Run(db, AddRequest(a, p))
              IN  out.req.status = 404 /\ out.db = db

\* a photo that stood first in an album has been deleted: the album goes on
\* with the photo that stood behind it
C24_Witness ==
    /\ last.op = "delete_photo"
    /\ last.status = 200
    /\ \E a \in db.album :
          /\ Memberships(db, a) # {}
          /\ \A x \in Memberships(db, a) : x.position > 0

\* C27: an update_settings that answers an error has changed none of
\* current_album_id, current_photo_index and interval_seconds
C27_AllOrNothing ==
    [][(last'.op = "update_settings" /\ last'.status # 200) => db'.settings = db.settings]_vars

\* C29: the stored interval_seconds is at least 1, and the interval get_settings
\* and get_next_photo return is that same number of seconds as a u32: never 0
\* and never the wrapped value of a negative number
C29_IntervalPositive ==
    /\ db.settings.interval_seconds >= 1
    /\ (last.op \in {"get_settings", "get_next_photo"} /\ last.status = 200) =>
          /\ last.interval_out # <<0, 0>>
          /\ last.interval_out[1] < 32768
          /\ last.interval_out[1] * 65536 + last.interval_out[2] = db.settings.interval_seconds

\* the interval has been changed from its default and then served to the viewer
C29_Witness ==
    /\ last.op = "get_next_photo"
    /\ last.status = 200
    /\ db.settings.interval_seconds # DefaultInterval

\* the rows of the current album, or one row per photo of the library ranked by
\* its id when no album is selected
RotationRows ==
    IF db.settings.current_album_id # None
    THEN {[photo_id |-> x.photo_id, rank |-> x.position] :
             x \in Memberships(db, db.settings.current_album_id[1])}
    ELSE {[photo_id |-> p, rank |-> p] : p \in db.photo}

\* the k-th photo of the rotation, counted from 0
RotationPhoto(k) ==
    (CHOOSE x \in RotationRows :
        Cardinality({y \in RotationRows : y.rank < x.rank}) = k).photo_id

\* C21: with n >= 1 photos to rotate over and the stored index at 0, the j-th of
\* the calls made one after the other returns the j-th photo of the order (by
\* position in the current album, by id in the library), and the (n+1)-th call
\* returns the first photo again
C21_Rotation ==
    LET n == Cardinality(RotationRows)
    IN  (n >= 1 /\ served.from = 0) =>
            \A j \in DOMAIN served.replies :
                /\ served.replies[j].status = 200
                /\ served.replies[j].photo = RotationPhoto((j - 1) % n)

\* an album whose order differs from the order of the ids has been served once
\* around, and the call after the last photo has returned the first one
C21_Witness ==
    /\ served.from = 0
    /\ db.settings.current_album_id # None
    /\ Cardinality(RotationRows) = MaxPhotos
    /\ RotationPhoto(0) # 1
    /\ Len(served.replies) = MaxPhotos + 1
    /\ last.photo = RotationPhoto(0)
    /\ served.replies[MaxPhotos].photo = RotationPhoto(MaxPhotos - 1)

\* C22: get_next_photo answers 404 "No photos available" exactly when there is
\* nothing to rotate over, and then it leaves the settings as they are;
\* otherwise it answers 200
C22_NoPhotos ==
    LET out == Run(db, NextPhotoRequest)
    IN  /\ out.req.status = 404 <=> RotationRows = {}
        /\ out.req.status = 404 => out.req.msg = "No photos available" /\ out.db = db
        /\ out.req.status # 404 => out.req.status = 200
        /\ RotationRows = {} =>
              /\ db.settings.current_photo_index = served.from
              /\ \A j \in DOMAIN served.replies : served.replies[j].status = 404

\* the selected album is empty while the library is not, and the call was
\* answered 404
C22_Witness ==
    /\ last.op = "get_next_photo"
    /\ last.status = 404
    /\ last.msg = "No photos available"
    /\ db.settings.current_album_id # None
    /\ db.photo # {}
    /\ db.settings.current_photo_index = served.from

\* C28: once all of k overlapping get_next_photo calls on n >= 1 photos, begun
\* at a stored index below n, have been answered with a photo, the stored index
\* is k steps further modulo n, and as long as
\* k <= n no two of them were served the same photo
C28_NoLostUpdate ==
    LET n == Cardinality(RotationRows)
        k == Len(served.replies)
    IN  (n >= 1 /\ served.from < n /\ reqs = <<>>) =>
            /\ db.settings.current_photo_index = (served.from + k) % n
            /\ k <= n => \A i, j \in 1..k :
                             i # j => served.replies[i].photo # served.replies[j].photo

\* C26: under every interleaving of update_settings, delete_album and
\* create_album requests the stored current album id is null or the id of an
\* existing album
C26_CurrentAlbumExists ==
    \/ db.settings.current_album_id = None
    \/ db.settings.current_album_id[1] \in db.album

\* the fetch chains of the viewer: a fetch in flight, a fetch timer that is set,
\* or a run of the effect that is scheduled
Chains == view.fetching + Len(view.fetch_timers) + (IF view.effect THEN 1 ELSE 0)

\* C30: once mounted the viewer has exactly one fetch chain: no fetch timer is
\* set while a fetch is in flight, a completed fetch sets exactly one, for the
\* served interval after a photo and for 30 seconds after an error, and
\* whenever no fetch is in flight one is eventually started
C30_AlwaysPolling ==
    /\ [](Chains = IF view.mounted THEN 1 ELSE 0)
    /\ [](view.fetching > 0 => view.fetch_timers = <<>>)
    /\ [][(view.fetching = 1 /\ view'.fetching = 0) =>
             /\ Len(view'.fetch_timers) = 1
             /\ view'.fetch_timers[1] =
                   IF view'.current # view.current \/ view'.overlay_timers # view.overlay_timers
                   THEN view'.current[1].interval
                   ELSE RetrySeconds]_vars
    /\ (view.mounted /\ view.fetching = 0) ~> (view.fetching = 1)

\* the trigger has wrapped around to 0, a photo is on the screen and the last
\* fetch failed: its retry is the one timer that is set
C30_Witness ==
    /\ view.fetch_trigger = 0
    /\ view.current # None
    /\ view.fetching = 0
    /\ view.fetch_timers = <<RetrySeconds>>

============================================================================
